---- MODULE Spec2Model ----
(***************************************************************************)
(* A model of ctru-rt: the lazily initialised handle cell and the OS mutex *)
(* built on it (src/sync.rs), the owning handle wrappers (src/os/mod.rs,   *)
(* src/os.rs), and the IPC command-buffer writer and reply parser          *)
(* (src/ipc/*.rs).  Each subsystem has its own specification over the      *)
(* shared variables; the variables of the other subsystems stay at their   *)
(* initial values.                                                         *)
(***************************************************************************)
EXTENDS Integers, Sequences, FiniteSets, TLC

VARIABLES
    \* ---- src/sync.rs: AtomicHandle / OsMutex, and the kernel behind it
    cell,        \* AtomicHandle.0, the raw handle stored in the cell
    pc,          \* per thread: where it is inside its current call
    op,          \* per thread: the RawMutex operation it is executing
    current,     \* per thread: local `current` of get_or_init
    new_handle,  \* per thread: local `new_handle` of get_or_init
    raw_handle,  \* per thread: local `raw_handle`, the value get_or_init returns
    held,        \* per thread: TRUE between a successful lock and its unlock
    calls,       \* per thread: number of operations started
    next_handle, \* kernel: the next fresh handle value
    khandles,    \* kernel: the open handles of the process
    kmutex,      \* kernel: per mutex object its owner thread (0 = free) and lock count
    closeCalls,  \* history: per raw value, number of close-handle syscalls issued
    returned,    \* history: the values get_or_init calls have returned
    sysHandles,  \* history: the handles passed to wait_synchronization / release_mutex
    \* ---- src/os/mod.rs, src/os.rs: owning handle wrappers
    kind,        \* which wrapper type is exercised: "OwnedHandle" or "Handle"
    wrappers,    \* per wrapper: its life state and its `handle` field (0 = None)
    raw,         \* the raw value the first wrapper was constructed from
    ownOpen,     \* kernel: the raw values that name an open handle
    ownCloses,   \* history: per raw value, number of close-handle syscalls issued
    leakedOut,   \* history: the raw values handed out by leak() / leak_raw()
    lastClose,   \* history: what the last close() call did
    \* ---- src/ipc/request.rs, src/ipc/mod.rs: building and sending a request
    req_pc,      \* "idle", typestate "Normal" / "Translate", "sent" or "panicked"
    writer,      \* CommandBufferWriter: end_ptr (word offset) and the words stored
    param_words, \* IpcRequest.param_words
    translate_param_words, \* IpcRequest.translate_param_words
    req_id,      \* IpcRequest.id / command_id
    builderCalls,\* number of builder calls made on this request
    argWords,    \* history: the words passed to write() after word 0, in order
    normalArgs,  \* history: how many of them were normal parameter words
    translateArgs, \* history: how many of them were translate words
    reqLog,      \* history: the parameters added, each with where its words begin
    \* ---- src/ipc/reply.rs and the callers of dispatch: receiving a reply
    reply_pc,    \* "sending", "raw" (a ReplyBuffer is being read), "done", "panicked"
    reply,       \* what the kernel will leave in the command buffer
    read_ptr,    \* ReplyBuffer.1, as a word offset from the buffer start
    outcome,     \* what the call returned to its caller
    readPos,     \* history: the buffer words the call dereferenced
    exposed,     \* history: the buffer words the call returned as a slice
    handlesMade, \* history: the buffer words the call turned into handles
    lastCall,    \* history: the last ReplyBuffer call and the read pointer it found
    \* ---- src/os/sharedmem.rs: SharedMemoryMapper (addresses in pages)
    next_candidate, \* SharedMemoryMapper.next_candidate, the cursor
    mem_map,        \* the kernel's memory map
    blocks,         \* the MappedBlocks the callers hold
    lastSearch,     \* history: the last gap search, its probes and its result
    shm_outcome,    \* what the last map or unmap returned and did
    \* ---- ctru-rt-macros/src/svc_spec.rs: the svc! syscall bindings
    input_spec,     \* InputSpec.parameters of the binding being expanded
    input_params,   \* what InputSpec::parameters returned for it
    binding,        \* the syscall binding being called and its OutputSpec
    out_regs,       \* r0, r1, ... as the kernel left them
    svc_result,     \* what the binding returned and the registers it decoded
    \* ---- thread.rs: spawned threads
    memory,         \* per spawn: the ThreadMemory allocation and its return slot
    thread,         \* per spawn: the kernel thread running the closure
    join_handle,    \* per spawn: the JoinHandle and what join returned
    \* ---- ipc/mod.rs: the header and descriptor words on their own
    codec_in,       \* the arguments of IpcHeader::new or TranslationDescriptor::new
    codec_out,      \* the word built and what its accessors return
    \* ---- result.rs: result codes on their own
    rc_in,          \* the fields or the 32-bit value a result code is made from
    rc_out,         \* what the operation on it returned
    \* ---- sync.rs: the timed lock of OsMutex
    overflow_checks, \* whether the build traps on integer overflow
    lock_call,      \* the last timed lock: its arguments and the timeout it passed
    \* ---- sync.rs: spin::StickyEvent and the address arbiter
    ev_state,       \* the State inside the RwLock: Cleared or Signaled
    rwlock,         \* the spin RwLock: readers, the upgradeable guard, the writer
    ev_pc,          \* per thread: where it is in signal, clear, wait or try_wait
    ev_op,          \* per thread: the call it is in, or the last it made
    ev_ret,         \* per thread: what its last call returned
    sticky,         \* history: a signal() has returned Ok and no clear() was called since
    \* ---- services/gsp/gpu.rs: the interrupt queue in shared memory
    irq_header,     \* the header word of the queue, an AtomicU32
    event_buf,      \* the event bytes of the queue, by word and byte
    pop_pc,         \* where pop_interrupt is: "idle", "read" or "store"
    pop_header,     \* local `header` of pop_interrupt
    pop_event,      \* local `event` of pop_interrupt
    pop_ret,        \* what the last pop_interrupt returned, and on which header
    read_at,        \* history: the event indices read_event has read
    pushed,         \* history: number of events the GSP module has queued
    popped,         \* history: the events pop_interrupt has returned, in order
    \* ---- services/gsp/gpu.rs: the framebuffer info of one screen
    fb_header,      \* the header word, an AtomicU32: index byte, update flag, rest
    fb_slots,       \* the two FramebufferInfoInner slots behind the header
    fb_pc,          \* where update is: "idle", "write", "write_rest", "load", "cas"
    fb_call,        \* the arguments of the update under way, or of the last one
    fb_next,        \* local `next_index` of update
    fb_current,     \* local `current` of trigger_update
    fb_updates,     \* number of update calls made
    \* ---- services/hid/mod.rs: Hid::init and the handles it owns
    hid_pc,         \* where init is: "idle", "srv", "dispatch", "read", "map"
    hid_service,    \* local `service_handle`, a Handle (0: none)
    hid_reply,      \* the six handle words of the reply, or <<>>
    hid_locals,     \* the six Handles bound from the reply, or <<>>
    hid_obj,        \* the Hids that init returned and that still live
    hid_ret,        \* what the last init returned
    hid_got,        \* the handles the last init obtained
    hid_closes,     \* per raw handle: the svc::close_handle calls made with it
    hid_fresh,      \* the next handle the kernel hands out
    hid_inits,      \* number of init calls made
    \* ---- services/soc.rs: one Soc object after the other
    soc_state,      \* "none", "live", "reclaimed", "reclaim_failed", "dropped", "init_failed"
    soc_obj,        \* the fields of the Soc: buffer and the handles it holds
    soc_given,      \* the buffer that was passed to init
    soc_sent,       \* the commands dispatched for this Soc: id and whether the reply was Ok
    soc_ret,        \* what reclaim returned
    soc_freed,      \* per allocation: the deallocate calls made for it
    soc_made,       \* number of buffers allocated
    soc_calls       \* number of gethostid calls made on this Soc

syncVars == <<cell, pc, op, current, new_handle, raw_handle, held, calls,
              next_handle, khandles, kmutex, closeCalls, returned, sysHandles>>

ownVars == <<kind, wrappers, raw, ownOpen, ownCloses, leakedOut, lastClose>>

reqVars == <<req_pc, writer, param_words, translate_param_words, req_id,
             builderCalls, argWords, normalArgs, translateArgs, reqLog>>

replyVars == <<reply_pc, reply, read_ptr, outcome, readPos, exposed, handlesMade,
               lastCall>>

shmVars == <<next_candidate, mem_map, blocks, lastSearch, shm_outcome>>

codecVars == <<codec_in, codec_out>>

thrVars == <<memory, thread, join_handle>>

svcVars == <<input_spec, input_params, binding, out_regs, svc_result>>

rcVars == <<rc_in, rc_out>>

lockVars == <<overflow_checks, lock_call>>

eventVars == <<ev_state, rwlock, ev_pc, ev_op, ev_ret, sticky>>

irqVars == <<irq_header, event_buf, pop_pc, pop_header, pop_event, pop_ret, read_at, pushed, popped>>

fbVars == <<fb_header, fb_slots, fb_pc, fb_call, fb_next, fb_current, fb_updates>>

hidVars == <<hid_pc, hid_service, hid_reply, hid_locals, hid_obj, hid_ret, hid_got, hid_closes, hid_fresh, hid_inits>>

socVars == <<soc_state, soc_obj, soc_given, soc_sent, soc_ret, soc_freed, soc_made, soc_calls>>

nonSyncVars == <<ownVars, reqVars, replyVars, shmVars, svcVars, thrVars, codecVars, rcVars, lockVars, eventVars, irqVars, fbVars, hidVars, socVars>>
nonOwnVars == <<syncVars, reqVars, replyVars, shmVars, svcVars, thrVars, codecVars, rcVars, lockVars, eventVars, irqVars, fbVars, hidVars, socVars>>
nonReqVars == <<syncVars, ownVars, replyVars, shmVars, svcVars, thrVars, codecVars, rcVars, lockVars, eventVars, irqVars, fbVars, hidVars, socVars>>
nonReplyVars == <<syncVars, ownVars, reqVars, shmVars, svcVars, thrVars, codecVars, rcVars, lockVars, eventVars, irqVars, fbVars, hidVars, socVars>>
nonShmVars == <<syncVars, ownVars, reqVars, replyVars, svcVars, thrVars, codecVars, rcVars, lockVars, eventVars, irqVars, fbVars, hidVars, socVars>>
nonSvcVars == <<syncVars, ownVars, reqVars, replyVars, shmVars, thrVars, codecVars, rcVars, lockVars, eventVars, irqVars, fbVars, hidVars, socVars>>

nonThrVars == <<syncVars, ownVars, reqVars, replyVars, shmVars, svcVars, codecVars, rcVars, lockVars, eventVars, irqVars, fbVars, hidVars, socVars>>

nonCodecVars == <<syncVars, ownVars, reqVars, replyVars, shmVars, svcVars, thrVars, rcVars, lockVars, eventVars, irqVars, fbVars, hidVars, socVars>>

nonRcVars == <<syncVars, ownVars, reqVars, replyVars, shmVars, svcVars, thrVars, codecVars, lockVars, eventVars, irqVars, fbVars, hidVars, socVars>>

nonLockVars == <<syncVars, ownVars, reqVars, replyVars, shmVars, svcVars, thrVars, codecVars, rcVars, eventVars, irqVars, fbVars, hidVars, socVars>>

nonEventVars == <<syncVars, ownVars, reqVars, replyVars, shmVars, svcVars, thrVars, codecVars, rcVars, lockVars, irqVars, fbVars, hidVars, socVars>>

nonIrqVars == <<syncVars, ownVars, reqVars, replyVars, shmVars, svcVars, thrVars, codecVars, rcVars, lockVars, eventVars, fbVars, hidVars, socVars>>

nonFbVars == <<syncVars, ownVars, reqVars, replyVars, shmVars, svcVars, thrVars, codecVars, rcVars, lockVars, eventVars, irqVars, hidVars, socVars>>

nonHidVars == <<syncVars, ownVars, reqVars, replyVars, shmVars, svcVars, thrVars, codecVars, rcVars, lockVars, eventVars, irqVars, fbVars, socVars>>

nonSocVars == <<syncVars, ownVars, reqVars, replyVars, shmVars, svcVars, thrVars, codecVars, rcVars, lockVars, eventVars, irqVars, fbVars, hidVars>>

vars == <<syncVars, ownVars, reqVars, replyVars, shmVars, svcVars, thrVars, codecVars, rcVars, lockVars, eventVars, irqVars, fbVars, hidVars, socVars>>

\* ------------------------------------------------------------------------
\* Bounds of the model
NumThreads == 2
MaxCalls == 3
MaxWrappers == 3
MaxBuilderCalls == 4
MaxTranslateSets == 2

\* ------------------------------------------------------------------------
\* Program constants
CLOSED_HANDLE == 0
COMMAND_BUFFER_LENGTH == 128
\* the 6-bit mask 0b0011_1111 of the header's word counts
HeaderFieldMask == 63

Threads == 1..NumThreads
\* every thread creates at most one kernel object: once the cell is set it
\* is never reset, so a thread that has seen it closed sees that only once
Handles == 1..NumThreads
NoThread == 0

\* ------------------------------------------------------------------------
\* The kernel (environment of the syscall bindings of src/svc.rs)

\* svc 0x13 create_mutex(initially_locked): a fresh handle to a new mutex,
\* held once by the creating thread when initially_locked
create_mutex(t, initially_locked) ==
    /\ next_handle \in Handles
    /\ next_handle' = next_handle + 1
    /\ khandles' = khandles \cup {next_handle}
    /\ kmutex' = [kmutex EXCEPT ![next_handle] =
                    IF initially_locked THEN [owner |-> t, count |-> 1]
                                        ELSE [owner |-> NoThread, count |-> 0]]

\* svc 0x23 close_handle: the handle leaves the process's handle table
close_handle(h) ==
    /\ closeCalls' = [closeCalls EXCEPT ![h] = @ + 1]
    /\ khandles' = khandles \ {h}

\* svc 0x24 wait_synchronization on a mutex handle: the result of the wait.
\* Kernel mutexes are recursive: the owner's wait succeeds and counts.
WaitOk(t, h) == h \in khandles /\ kmutex[h].owner \in {NoThread, t}

wait_synchronization_acquire(t, h) ==
    kmutex' = [kmutex EXCEPT ![h] = [owner |-> t, count |-> @.count + 1]]

\* svc 0x14 release_mutex: succeeds only for the owner
ReleaseOk(t, h) == h \in khandles /\ kmutex[h].owner = t

release_mutex(t, h) ==
    kmutex' = [kmutex EXCEPT ![h] =
                 IF @.count = 1 THEN [owner |-> NoThread, count |-> 0]
                                ELSE [owner |-> t, count |-> @.count - 1]]

\* ------------------------------------------------------------------------
\* AtomicHandle::get_or_init, one action per atomic step

\* the value the successful compare_exchange arm evaluates to:
\* `Ok(new_handle) => new_handle` binds the value compare_exchange returns,
\* which on success is the value the cell held before the exchange
CasOkValue(previous, new) == previous

\* let current = self.0.load(Acquire); ... else { current }
GetLoad(t) ==
    /\ pc[t] = "load"
    /\ current' = [current EXCEPT ![t] = cell]
    /\ IF cell = CLOSED_HANDLE
         THEN /\ pc' = [pc EXCEPT ![t] = "init"]
              /\ UNCHANGED <<raw_handle, returned>>
         ELSE /\ pc' = [pc EXCEPT ![t] = "got"]
              /\ raw_handle' = [raw_handle EXCEPT ![t] = cell]
              /\ returned' = returned \cup {cell}
    /\ UNCHANGED <<nonSyncVars, cell, op, new_handle, held, calls, next_handle, khandles,
                   kmutex, closeCalls, sysHandles>>

\* let new_handle = init().leak();  with init = OsMutex::get's closure,
\* svc::create_mutex(INITIALLY_LOCKED = true)
GetInit(t) ==
    /\ pc[t] = "init"
    /\ create_mutex(t, TRUE)
    /\ new_handle' = [new_handle EXCEPT ![t] = next_handle]
    /\ pc' = [pc EXCEPT ![t] = "cas"]
    /\ UNCHANGED <<nonSyncVars, cell, op, current, raw_handle, held, calls, closeCalls,
                   returned, sysHandles>>

\* self.0.compare_exchange(CLOSED_HANDLE, new_handle, AcqRel, Acquire)
GetCas(t) ==
    /\ pc[t] = "cas"
    /\ IF cell = CLOSED_HANDLE
         THEN /\ cell' = new_handle[t]
              /\ raw_handle' = [raw_handle EXCEPT ![t] = CasOkValue(cell, new_handle[t])]
              /\ returned' = returned \cup {CasOkValue(cell, new_handle[t])}
              /\ pc' = [pc EXCEPT ![t] = "got"]
         ELSE /\ raw_handle' = [raw_handle EXCEPT ![t] = cell]   \* old_handle
              /\ pc' = [pc EXCEPT ![t] = "close"]
              /\ UNCHANGED <<cell, returned>>
    /\ UNCHANGED <<nonSyncVars, op, current, new_handle, held, calls, next_handle, khandles,
                   kmutex, closeCalls, sysHandles>>

\* a loser that forgets its candidate
GetCloseLoserLeak(t) ==
    /\ pc[t] = "close"
    /\ returned' = returned \cup {raw_handle[t]}
    /\ pc' = [pc EXCEPT ![t] = "got"]
    /\ UNCHANGED <<nonSyncVars, cell, op, current, new_handle, raw_handle, held, calls,
                   next_handle, khandles, kmutex, closeCalls, sysHandles>>

\* Err(old_handle) => { svc::close_handle(new_handle).ok(); old_handle }
GetCloseLoser(t) ==
    /\ pc[t] = "close"
    /\ close_handle(new_handle[t])
    /\ returned' = returned \cup {raw_handle[t]}
    /\ pc' = [pc EXCEPT ![t] = "got"]
    /\ UNCHANGED <<nonSyncVars, cell, op, current, new_handle, raw_handle, held, calls,
                   next_handle, kmutex, sysHandles>>

\* ------------------------------------------------------------------------
\* RawMutex / RawMutexTimed for OsMutex: every operation starts with get()

MutexOps == {"lock", "try_lock", "try_lock_for", "unlock"}

\* a thread starts an operation; unlock is called only by the holder of the
\* guard, the locking operations only by a thread that holds none
Call(t, o) ==
    /\ pc[t] = "idle"
    /\ calls[t] < MaxCalls
    /\ IF o = "unlock" THEN held[t] ELSE ~held[t]
    /\ op' = [op EXCEPT ![t] = o]
    /\ pc' = [pc EXCEPT ![t] = "load"]
    /\ calls' = [calls EXCEPT ![t] = @ + 1]
    /\ UNCHANGED <<nonSyncVars, cell, current, new_handle, raw_handle, held, next_handle,
                   khandles, kmutex, closeCalls, returned, sysHandles>>

\* svc::wait_synchronization(handle, Timeout::forever()).expect(..)
\* blocks while another thread owns the mutex; an error result panics
Lock(t) ==
    /\ pc[t] = "got" /\ op[t] = "lock"
    /\ sysHandles' = sysHandles \cup {raw_handle[t]}
    /\ IF raw_handle[t] \in khandles
         THEN /\ WaitOk(t, raw_handle[t])
              /\ wait_synchronization_acquire(t, raw_handle[t])
              /\ held' = [held EXCEPT ![t] = TRUE]
              /\ pc' = [pc EXCEPT ![t] = "idle"]
         ELSE /\ pc' = [pc EXCEPT ![t] = "panicked"]
              /\ UNCHANGED <<kmutex, held>>
    /\ UNCHANGED <<nonSyncVars, cell, op, current, new_handle, raw_handle, calls, next_handle,
                   khandles, closeCalls, returned>>

\* svc::wait_synchronization(handle, timeout).is_ok() with a zero timeout
\* (try_lock) or a finite one (try_lock_for): fails when the mutex stays
\* owned by another thread or the handle is invalid
TryLock(t) ==
    /\ pc[t] = "got" /\ op[t] \in {"try_lock", "try_lock_for"}
    /\ sysHandles' = sysHandles \cup {raw_handle[t]}
    /\ IF WaitOk(t, raw_handle[t])
         THEN /\ wait_synchronization_acquire(t, raw_handle[t])
              /\ held' = [held EXCEPT ![t] = TRUE]
         ELSE UNCHANGED <<kmutex, held>>
    /\ pc' = [pc EXCEPT ![t] = "idle"]
    /\ UNCHANGED <<nonSyncVars, cell, op, current, new_handle, raw_handle, calls, next_handle,
                   khandles, closeCalls, returned>>

\* svc::release_mutex(handle).expect("Failed to unlock mutex")
Unlock(t) ==
    /\ pc[t] = "got" /\ op[t] = "unlock"
    /\ sysHandles' = sysHandles \cup {raw_handle[t]}
    /\ held' = [held EXCEPT ![t] = FALSE]
    /\ IF ReleaseOk(t, raw_handle[t])
         THEN /\ release_mutex(t, raw_handle[t])
              /\ pc' = [pc EXCEPT ![t] = "idle"]
         ELSE /\ pc' = [pc EXCEPT ![t] = "panicked"]
              /\ UNCHANGED kmutex
    /\ UNCHANGED <<nonSyncVars, cell, op, current, new_handle, raw_handle, calls, next_handle,
                   khandles, closeCalls, returned>>

\* const INIT: Self = Self { handle: AtomicHandle::new_closed() }
InitSync ==
    /\ cell = CLOSED_HANDLE
    /\ pc = [t \in Threads |-> "idle"]
    /\ op = [t \in Threads |-> "none"]
    /\ current = [t \in Threads |-> CLOSED_HANDLE]
    /\ new_handle = [t \in Threads |-> CLOSED_HANDLE]
    /\ raw_handle = [t \in Threads |-> CLOSED_HANDLE]
    /\ held = [t \in Threads |-> FALSE]
    /\ calls = [t \in Threads |-> 0]
    /\ next_handle = 1
    /\ khandles = {}
    /\ kmutex = [h \in Handles |-> [owner |-> NoThread, count |-> 0]]
    /\ closeCalls = [h \in {CLOSED_HANDLE} \cup Handles |-> 0]
    /\ returned = {}
    /\ sysHandles = {}

NextSync ==
    \E t \in Threads :
        \/ \E o \in MutexOps : Call(t, o)
        \/ GetLoad(t)
        \/ GetInit(t)
        \/ GetCas(t)
        \/ GetCloseLoser(t)
        \/ Lock(t)
        \/ TryLock(t)
        \/ Unlock(t)

\* Drop for AtomicHandle: core::mem::replace(self.0.get_mut(), CLOSED_HANDLE),
\* then svc::close_handle on the value taken out, its result dropped. The
\* cell is owned by then: no call is under way, no guard is alive, and none
\* is made afterwards.
AtomicHandleDrop ==
    /\ \A t \in Threads : pc[t] \in {"idle", "panicked"} /\ ~held[t]
    /\ cell' = CLOSED_HANDLE
    /\ close_handle(cell)
    /\ pc' = [t \in Threads |-> "dropped"]
    /\ UNCHANGED <<nonSyncVars, op, current, new_handle, raw_handle, held, calls,
                   next_handle, kmutex, returned, sysHandles>>

\* the cell in use and, at the end, dropped
NextSyncDrop ==
    \/ NextSync
    \/ AtomicHandleDrop


\* ------------------------------------------------------------------------
\* Owning handles: OwnedHandle (src/os/mod.rs) and Handle (src/os.rs)

WrapperIds == 1..MaxWrappers

\* the raw values a wrapper is constructed from: the closed sentinel, for
\* which NonZeroU32::new yields None, and a non-zero raw handle
RawValues == {CLOSED_HANDLE, 7}

\* the wrappers that do not exist yet
Unborn == {w \in WrapperIds : wrappers[w].st = "unborn"}

Live(w) == wrappers[w].st = "live"

\* svc::close_handle issued for raw value h by a wrapper
OwnSvcClose(h) ==
    /\ ownCloses' = [ownCloses EXCEPT ![h] = @ + 1]
    /\ ownOpen' = ownOpen \ {h}

\* a close() that issues the syscall but keeps the handle field
OwnedCloseBodyKeep(w, st) ==
    /\ IF wrappers[w].handle # CLOSED_HANDLE
         THEN /\ OwnSvcClose(wrappers[w].handle)
              /\ lastClose' = [called |-> TRUE, had |-> TRUE, syscall |-> TRUE,
                               ok |-> wrappers[w].handle \in ownOpen]
         ELSE /\ lastClose' = [called |-> TRUE, had |-> FALSE, syscall |-> FALSE,
                               ok |-> TRUE]
              /\ UNCHANGED <<ownCloses, ownOpen>>
    /\ wrappers' = [wrappers EXCEPT ![w].st = st]

\* OwnedHandle::close: Some(_) => { result = svc::close_handle(..);
\* self.handle = None; result }, None => Ok(()).  The wrapper is left in
\* life state st ("live" after close(), "dropped" when run by Drop).
OwnedCloseBody(w, st) ==
    /\ IF wrappers[w].handle # CLOSED_HANDLE
         THEN /\ OwnSvcClose(wrappers[w].handle)
              /\ lastClose' = [called |-> TRUE, had |-> TRUE, syscall |-> TRUE,
                               ok |-> wrappers[w].handle \in ownOpen]
         ELSE /\ lastClose' = [called |-> TRUE, had |-> FALSE, syscall |-> FALSE,
                               ok |-> TRUE]
              /\ UNCHANGED <<ownCloses, ownOpen>>
    /\ wrappers' = [wrappers EXCEPT ![w] = [st |-> st, handle |-> CLOSED_HANDLE]]

\* Handle::close: if let Some(handle) = self.handle.take() {
\* svc::close_handle(handle) } else { Ok(()) }
HandleCloseBody(w, st) ==
    /\ wrappers' = [wrappers EXCEPT ![w] = [st |-> st, handle |-> CLOSED_HANDLE]]
    /\ IF wrappers[w].handle # CLOSED_HANDLE
         THEN /\ OwnSvcClose(wrappers[w].handle)
              /\ lastClose' = [called |-> TRUE, had |-> TRUE, syscall |-> TRUE,
                               ok |-> wrappers[w].handle \in ownOpen]
         ELSE /\ lastClose' = [called |-> TRUE, had |-> FALSE, syscall |-> FALSE,
                               ok |-> TRUE]
              /\ UNCHANGED <<ownCloses, ownOpen>>

\* OwnedHandle::take: the new wrapper gets the option, self keeps None
OwnedTake(w) ==
    /\ kind = "OwnedHandle" /\ Live(w)
    /\ Unborn # {}
    /\ LET n == CHOOSE x \in Unborn : \A y \in Unborn : x <= y
       IN wrappers' = [wrappers EXCEPT ![n] = [st |-> "live", handle |-> wrappers[w].handle],
                                       ![w].handle = CLOSED_HANDLE]
    /\ UNCHANGED <<nonOwnVars, kind, raw, ownOpen, ownCloses, leakedOut, lastClose>>

\* OwnedHandle::close called by the owner of the wrapper
OwnedClose(w) ==
    /\ kind = "OwnedHandle" /\ Live(w)
    /\ OwnedCloseBody(w, "live")
    /\ UNCHANGED <<nonOwnVars, kind, raw, leakedOut>>

\* Drop for OwnedHandle: let _ = self.close()
OwnedDrop(w) ==
    /\ kind = "OwnedHandle" /\ Live(w)
    /\ OwnedCloseBody(w, "dropped")
    /\ UNCHANGED <<nonOwnVars, kind, raw, leakedOut>>

\* OwnedHandle::leak: core::mem::forget(self); the raw value (or
\* CLOSED_HANDLE for None) is returned
OwnedLeak(w) ==
    /\ kind = "OwnedHandle" /\ Live(w)
    /\ leakedOut' = leakedOut \cup {wrappers[w].handle}
    /\ wrappers' = [wrappers EXCEPT ![w].st = "leaked"]
    /\ UNCHANGED <<nonOwnVars, kind, raw, ownOpen, ownCloses, lastClose>>

\* Handle::close (src/os.rs)
HandleClose(w) ==
    /\ kind = "Handle" /\ Live(w)
    /\ HandleCloseBody(w, "live")
    /\ UNCHANGED <<nonOwnVars, kind, raw, leakedOut>>

\* Drop for Handle: let _ = unsafe { self.close() }
HandleDrop(w) ==
    /\ kind = "Handle" /\ Live(w)
    /\ HandleCloseBody(w, "dropped")
    /\ UNCHANGED <<nonOwnVars, kind, raw, leakedOut>>

\* Handle::leak_raw: the raw value of borrow_handle(), then forget(self)
HandleLeakRaw(w) ==
    /\ kind = "Handle" /\ Live(w)
    /\ leakedOut' = leakedOut \cup {wrappers[w].handle}
    /\ wrappers' = [wrappers EXCEPT ![w].st = "leaked"]
    /\ UNCHANGED <<nonOwnVars, kind, raw, ownOpen, ownCloses, lastClose>>

\* no wrapper exists (the state of this subsystem in the other specifications)
OwnIdle ==
    /\ kind = "OwnedHandle"
    /\ wrappers = [w \in WrapperIds |-> [st |-> "unborn", handle |-> CLOSED_HANDLE]]
    /\ raw = CLOSED_HANDLE
    /\ ownOpen = {}
    /\ ownCloses = [h \in RawValues |-> 0]
    /\ leakedOut = {}
    /\ lastClose = [called |-> FALSE, had |-> FALSE, syscall |-> FALSE, ok |-> TRUE]

\* OwnedHandle::new(raw_handle) / Handle::new(raw_handle): one wrapper made
\* from a raw value, which may or may not name an open kernel handle
InitOwn ==
    /\ kind \in {"OwnedHandle", "Handle"}
    /\ raw \in RawValues
    /\ wrappers = [w \in WrapperIds |->
                     IF w = 1 THEN [st |-> "live", handle |-> raw]
                              ELSE [st |-> "unborn", handle |-> CLOSED_HANDLE]]
    /\ ownOpen \in {{}, {raw} \ {CLOSED_HANDLE}}
    /\ ownCloses = [h \in RawValues |-> 0]
    /\ leakedOut = {}
    /\ lastClose = [called |-> FALSE, had |-> FALSE, syscall |-> FALSE, ok |-> TRUE]

NextOwn ==
    \E w \in WrapperIds :
        \/ OwnedTake(w)
        \/ OwnedClose(w)
        \/ OwnedDrop(w)
        \/ OwnedLeak(w)
        \/ HandleClose(w)
        \/ HandleDrop(w)
        \/ HandleLeakRaw(w)


\* ------------------------------------------------------------------------
\* 32-bit words.  A word is the pair <<high half, low half>> of its 16-bit
\* halves, so that every shift and mask below is exact.

Half == 65536

Word(n) == <<(n \div Half) % Half, n % Half>>

ZeroWord == <<0, 0>>

\* IpcHeader::new: command_id << 16 | (normal & 0x3f) << 6 | (translate & 0x3f)
IpcHeader_new(command_id, normal_words, translate_words) ==
    <<command_id % Half,
      ((normal_words % (HeaderFieldMask + 1)) * 64)
        + (translate_words % (HeaderFieldMask + 1))>>

\* IpcHeader::command_id: (self.0 >> 16) as u16
IpcHeader_command_id(h) == h[1]

\* IpcHeader::normal_param_words: (self.0 >> 6) & 0x3f
IpcHeader_normal_param_words(h) == (h[2] \div 64) % (HeaderFieldMask + 1)

\* IpcHeader::translate_param_words: self.0 & 0x3f
IpcHeader_translate_param_words(h) == h[2] % (HeaderFieldMask + 1)

\* HandleTranslationType as u32
Clone == 0
Move == 1

\* a descriptor that stores the count itself
TranslationDescriptor_new_count(len, handle_translation) ==
    <<((len % 64) * 1024) % Half, handle_translation * 16>>

\* TranslationDescriptor::new: ((len as isize - 1) as u32) << 26 | type << 4
TranslationDescriptor_new(len, handle_translation) ==
    <<(((len - 1) % 64) * 1024) % Half, handle_translation * 16>>

\* TranslationDescriptor::len: self.0 >> 26
TranslationDescriptor_len(d) == d[1] \div 1024

\* a descriptor with the size two bits further up
StaticBufferDescriptor_shifted(size, id) ==
    <<size % Half, ((id % 16) * 1024) + 2>>

\* (size << 14) | (id << 10) | 0x2 with id = id & 0x0f
StaticBufferDescriptor(size, id) ==
    <<(size \div 4) % Half, ((size % 4) * 16384) + ((id % 16) * 1024) + 2>>

\* a size that counts the process id as one word
TranslateParameterSet_size_short(p) ==
    CASE p.kind = "Handle" -> 1 + Len(p.handles)
      [] p.kind = "HandleRef" -> 1 + Len(p.handles)
      [] p.kind = "ProcessId" -> 1
      [] p.kind = "StaticBuffer" -> 2

\* TranslateParameterSet::size
TranslateParameterSet_size(p) ==
    CASE p.kind = "Handle" -> 1 + Len(p.handles)
      [] p.kind = "HandleRef" -> 1 + Len(p.handles)
      [] p.kind = "ProcessId" -> 2
      [] p.kind = "StaticBuffer" -> 2

\* the words a translate parameter passes to write(), in order
TranslateWords(p) ==
    CASE p.kind = "Handle" ->
           <<TranslationDescriptor_new(Len(p.handles), Move)>> \o p.handles
      [] p.kind = "HandleRef" ->
           <<TranslationDescriptor_new(Len(p.handles), Clone)>> \o p.handles
      [] p.kind = "ProcessId" -> <<Word(32), Word(0)>>
      [] p.kind = "StaticBuffer" -> <<StaticBufferDescriptor(p.size, p.id), p.ptr>>

\* ------------------------------------------------------------------------
\* CommandBufferWriter

\* a range check that admits the one-past-the-end word
InRangeInclusive(p) == 0 <= p /\ p <= COMMAND_BUFFER_LENGTH

\* CommandBuffer::range().contains(p): start <= p < start + 0x80
InRange(p) == 0 <= p /\ p < COMMAND_BUFFER_LENGTH

Store(mem, p, arg) == [x \in (DOMAIN mem) \cup {p} |-> IF x = p THEN arg ELSE mem[x]]

EmptyMem == [x \in {} |-> ZeroWord]

\* CommandBufferWriter::write on the writer state w; `passed` collects the
\* words handed to write, `panicked` ends the handler
CommandBufferWriter_write(w, arg) ==
    IF w.panicked THEN w
    ELSE IF InRange(w.end_ptr)
           THEN [w EXCEPT !.mem = Store(w.mem, w.end_ptr, arg),
                          !.end_ptr = @ + 1,
                          !.passed = Append(@, arg)]
           ELSE [w EXCEPT !.panicked = TRUE, !.passed = Append(@, arg)]

\* `for word in words { cmdbuf.write(word) }`: the words are written one
\* after the other until one of them finds the write pointer out of range.
\* Word i is stored when the pointer was in range for every word up to it.
WriteAll(w, words) ==
    LET n == Len(words)
        reached(i) == \A j \in 1..i : InRange(w.end_ptr + j - 1)
        k == IF w.panicked THEN 0 ELSE Cardinality({i \in 1..n : reached(i)})
        stop == (~w.panicked) /\ k < n
        fresh == {w.end_ptr + i - 1 : i \in 1..k}
    IN [end_ptr |-> w.end_ptr + k,
        mem |-> [x \in (DOMAIN w.mem) \cup fresh |->
                   IF x \in fresh THEN words[x - w.end_ptr + 1] ELSE w.mem[x]],
        passed |-> w.passed \o SubSeq(words, 1, IF stop THEN k + 1 ELSE k),
        panicked |-> w.panicked \/ stop]

WriterOf(end_ptr, mem) ==
    [end_ptr |-> end_ptr, mem |-> mem, passed |-> <<>>, panicked |-> FALSE]

\* ------------------------------------------------------------------------
\* The inputs of a request

CommandIds == {5, 65535}

ParamValue == Word(4660)

\* the const-generic arrays handed to parameters(): element i is distinct
ParamArrayLens == {2, HeaderFieldMask - 2, HeaderFieldMask}
ParamArray(n) == [i \in 1..n |-> Word(256 + i)]

\* the slices handed to with_params()
ParamSliceLens == {0, 2, HeaderFieldMask, HeaderFieldMask + 1,
                   COMMAND_BUFFER_LENGTH - 3, COMMAND_BUFFER_LENGTH - 1,
                   COMMAND_BUFFER_LENGTH}

HandleA == Word(1114129)
HandleB == Word(2228258)

TranslateParams ==
    {[kind |-> "Handle", handles |-> hs] : hs \in {<<>>, <<HandleA>>, <<HandleA, HandleB>>}}
    \cup {[kind |-> "HandleRef", handles |-> <<HandleB>>]}
    \cup {[kind |-> "ProcessId"]}
    \cup {[kind |-> "StaticBuffer", size |-> 4, id |-> 0, ptr |-> Word(134217728)],
          [kind |-> "StaticBuffer", size |-> 5, id |-> 15, ptr |-> Word(134217744)]}

RECURSIVE SeqsUpTo(_, _)
\* the sequences over S of length at most n
SeqsUpTo(S, n) ==
    IF n = 0 THEN {<<>>}
    ELSE LET shorter == SeqsUpTo(S, n - 1)
         IN shorter \cup {Append(q, x) : q \in shorter, x \in S}

RECURSIVE Flatten(_)
\* the words of a sequence of translate parameters
Flatten(ps) == IF ps = <<>> THEN <<>> ELSE TranslateWords(Head(ps)) \o Flatten(Tail(ps))

RECURSIVE SumSizes(_)
\* tp.iter().fold(0, |total, param_set| total + param_set.size())
SumSizes(ps) == IF ps = <<>> THEN 0 ELSE TranslateParameterSet_size(Head(ps)) + SumSizes(Tail(ps))

\* the normal parameter words of one call, kept next to the translate
\* parameters in the log of what a request was given
NormalWords(words) == [kind |-> "Normal", words |-> words]

\* the words parameter p hands to write()
WordsOf(p) == IF p.kind = "Normal" THEN p.words ELSE TranslateWords(p)

\* parameter p, whose first word went to buffer word `at`, added when
\* `normals` normal words had been written
Logged(p, at, normals) == [p |-> p, at |-> at, normals |-> normals]

RECURSIVE LogAll(_, _, _)
\* the parameters ps written one after the other from buffer word `at` on
LogAll(ps, at, normals) ==
    IF ps = <<>> THEN <<>>
    ELSE LET n == Len(WordsOf(Head(ps)))
             now == IF Head(ps).kind = "Normal" THEN normals + n ELSE normals
         IN <<Logged(Head(ps), at, now)>> \o LogAll(Tail(ps), at + n, now)

\* ------------------------------------------------------------------------
\* IpcRequest, the builder of src/ipc/request.rs

\* a builder whose parameter and parameters exist in every typestate
CanAddNormalAnyState(state) == state \in {"Normal", "Translate"}

\* impl IpcRequest<state::Normal>: parameter and parameters exist only there
CanAddNormal(state) == state = "Normal"

\* IpcRequest::command(id): the writer starts at the buffer start and is
\* advanced past the header word
Command(id) ==
    /\ req_pc = "idle"
    /\ req_pc' = "Normal"
    /\ writer' = [end_ptr |-> 1, mem |-> EmptyMem]
    /\ param_words' = 0
    /\ translate_param_words' = 0
    /\ req_id' = id
    /\ UNCHANGED <<nonReqVars, builderCalls, argWords, normalArgs, translateArgs, reqLog>>

\* IpcRequest<Normal>::parameter: cmdbuf.write(parameter.encode());
\* param_words += 1
Parameter(v) ==
    /\ CanAddNormal(req_pc)
    /\ builderCalls < MaxBuilderCalls
    /\ builderCalls' = builderCalls + 1
    /\ LET w == CommandBufferWriter_write(WriterOf(writer.end_ptr, writer.mem), v)
       IN /\ writer' = [end_ptr |-> w.end_ptr, mem |-> w.mem]
          /\ argWords' = argWords \o w.passed
          /\ normalArgs' = normalArgs + Len(w.passed)
          /\ IF w.panicked
               THEN req_pc' = "panicked" /\ UNCHANGED <<param_words, reqLog>>
               ELSE /\ req_pc' = "Normal" /\ param_words' = param_words + 1
                    /\ reqLog' = Append(reqLog, Logged(NormalWords(<<v>>), writer.end_ptr,
                                                       normalArgs))
    /\ UNCHANGED <<nonReqVars, translate_param_words, req_id, translateArgs>>

\* IpcRequest<Normal>::parameters: every element is written, then
\* param_words += parameters.len()
Parameters(arr) ==
    /\ CanAddNormal(req_pc)
    /\ builderCalls < MaxBuilderCalls
    /\ builderCalls' = builderCalls + 1
    /\ LET w == WriteAll(WriterOf(writer.end_ptr, writer.mem), arr)
       IN /\ writer' = [end_ptr |-> w.end_ptr, mem |-> w.mem]
          /\ argWords' = argWords \o w.passed
          /\ normalArgs' = normalArgs + Len(w.passed)
          /\ IF w.panicked
               THEN req_pc' = "panicked" /\ UNCHANGED <<param_words, reqLog>>
               ELSE /\ req_pc' = "Normal" /\ param_words' = param_words + Len(arr)
                    /\ reqLog' = Append(reqLog, Logged(NormalWords(arr), writer.end_ptr,
                                                       normalArgs))
    /\ UNCHANGED <<nonReqVars, translate_param_words, req_id, translateArgs>>

\* IpcRequest<S>::translate_parameter: the parameter encodes itself into
\* the writer; its size is the distance the write pointer moved
TranslateParameter(p) ==
    /\ req_pc \in {"Normal", "Translate"}
    /\ builderCalls < MaxBuilderCalls
    /\ builderCalls' = builderCalls + 1
    /\ LET before == writer.end_ptr
           w == WriteAll(WriterOf(writer.end_ptr, writer.mem), TranslateWords(p))
       IN /\ writer' = [end_ptr |-> w.end_ptr, mem |-> w.mem]
          /\ argWords' = argWords \o w.passed
          /\ translateArgs' = translateArgs + Len(w.passed)
          /\ IF w.panicked
               THEN req_pc' = "panicked" /\ UNCHANGED <<translate_param_words, reqLog>>
               ELSE /\ req_pc' = "Translate"
                    /\ translate_param_words' = translate_param_words + (w.end_ptr - before)
                    /\ reqLog' = Append(reqLog, Logged(p, before, normalArgs))
    /\ UNCHANGED <<nonReqVars, param_words, req_id, normalArgs>>

\* IpcRequest<S>::dispatch_no_fail up to the trap: the header is written to
\* the buffer start, then svc::send_sync_request
DispatchNoFail ==
    /\ req_pc \in {"Normal", "Translate"}
    /\ writer' = [writer EXCEPT !.mem =
                    Store(writer.mem, 0,
                          IpcHeader_new(req_id, param_words, translate_param_words))]
    /\ req_pc' = "sent"
    /\ UNCHANGED <<nonReqVars, param_words, translate_param_words, req_id,
                   builderCalls, argWords, normalArgs, translateArgs, reqLog>>

\* ------------------------------------------------------------------------
\* IpcRequest::dispatch_no_parse of src/ipc/mod.rs: the header is computed
\* from the lengths and written first, then the parameters

DispatchNoParse(id, params, translate_params) ==
    /\ req_pc = "idle"
    /\ LET header == IpcHeader_new(id, Len(params), SumSizes(translate_params))
           w0 == CommandBufferWriter_write(WriterOf(0, EmptyMem), header)
           w1 == WriteAll([w0 EXCEPT !.passed = <<>>], params)
           w2 == WriteAll([w1 EXCEPT !.passed = <<>>], Flatten(translate_params))
       IN /\ writer' = [end_ptr |-> w2.end_ptr, mem |-> w2.mem]
          /\ argWords' = w1.passed \o w2.passed
          /\ normalArgs' = Len(w1.passed)
          /\ translateArgs' = Len(w2.passed)
          /\ req_pc' = IF w2.panicked THEN "panicked" ELSE "sent"
          /\ reqLog' = IF w2.panicked THEN <<>>
                        ELSE LogAll(<<NormalWords(params)>> \o translate_params, 1, 0)
    /\ req_id' = id
    /\ param_words' = Len(params)
    /\ translate_param_words' = SumSizes(translate_params)
    /\ UNCHANGED <<nonReqVars, builderCalls>>

\* no request is being built
ReqIdle ==
    /\ req_pc = "idle"
    /\ writer = [end_ptr |-> 0, mem |-> EmptyMem]
    /\ param_words = 0
    /\ translate_param_words = 0
    /\ req_id = 0
    /\ builderCalls = 0
    /\ argWords = <<>>
    /\ normalArgs = 0
    /\ translateArgs = 0
    /\ reqLog = <<>>

NextReq ==
    \/ \E id \in CommandIds : Command(id)
    \/ Parameter(ParamValue)
    \/ \E n \in ParamArrayLens : Parameters(ParamArray(n))
    \/ \E p \in TranslateParams : TranslateParameter(p)
    \/ DispatchNoFail
    \/ \E id \in CommandIds, n \in ParamSliceLens,
          tps \in SeqsUpTo(TranslateParams, MaxTranslateSets) :
            DispatchNoParse(id, ParamArray(n), tps)

\* ------------------------------------------------------------------------
\* Result codes (src/result.rs)

\* ResultCode::new: level << 27 | summary << 21 | module << 10 | (description & 0x3ff)
ResultCode_new(level, summary, module, description) ==
    <<((level * 2048) + (summary * 32) + (module \div 64)) % Half,
      ((module % 64) * 1024) + (description % 1024)>>

\* an is_err that takes only values with the top bit set for errors
is_err_negative(code) == code[1] >= 32768

\* ResultValue::is_err: self.value() != 0
is_err(code) == code # ZeroWord

\* Level::Info, Summary::InvalidResultValue, Module::Application, Module::Gsp
LevelInfo == 1
SummaryInvalidResultValue == 63
ModuleApplication == 254
ModuleGsp == 10
\* CommonDescription::NoData
NoData == 1007

\* a reply without a result code taken for a success
NoResultCodeSuccess == ZeroWord

\* a reply without a result code is given this one
NoResultCode ==
    ResultCode_new(LevelInfo, SummaryInvalidResultValue, ModuleApplication, NoData)

\* RESULT_NEED_HW_INIT = ErrorCode::new(Level::Success, Summary::Success, Module::Gsp, 519)
RESULT_NEED_HW_INIT == ResultCode_new(0, 0, ModuleGsp, 519)

\* ------------------------------------------------------------------------
\* The reply the kernel leaves in the command buffer

\* an error of the service, and the result of a failed send_sync_request
SomeError == <<55520, 2039>>

ReplyNormalCounts == {0, 1, 3, HeaderFieldMask}
ReplyTranslateCounts == {0, 1, 2, 3, HeaderFieldMask}
ReplyDescFields == {0, 1, 2, HeaderFieldMask - 1, HeaderFieldMask}
ReplyResultCodes == {ZeroWord, SomeError, RESULT_NEED_HW_INIT}

Replies ==
    [id : {19}, n : ReplyNormalCounts, m : ReplyTranslateCounts,
     rc : ReplyResultCodes, dfield : ReplyDescFields]

\* word i of the buffer after the request: the header, the result code (if
\* the header declares a normal word), the normal words, the handle-group
\* descriptor, and after it handle words or whatever the buffer held
ReplyWordAt(r, i) ==
    IF i = 0 THEN IpcHeader_new(r.id, r.n, r.m)
    ELSE IF i <= r.n THEN (IF i = 1 THEN r.rc ELSE Word(21760 + i))
    ELSE IF i = r.n + 1 THEN <<r.dfield * 1024, Move * 16>>
    ELSE Word(458752 + i)

\* ------------------------------------------------------------------------
\* ReplyBuffer (src/ipc/reply.rs)

\* ReplyBuffer::range().contains(p)
ReplyInRange(p) == 0 <= p /\ p < COMMAND_BUFFER_LENGTH

\* ReplyBuffer::read at read pointer ptr
ReplyBuffer_read(ptr) ==
    IF ReplyInRange(ptr)
      THEN [ok |-> TRUE, ptr |-> ptr + 1, pos |-> {ptr}]
      ELSE [ok |-> FALSE, ptr |-> ptr, pos |-> {}]

\* ReplyBuffer::read_range(len) at read pointer ptr: both ends of
\* ptr .. ptr+len-1 must lie in the window
ReplyBuffer_read_range(ptr, len) ==
    IF ReplyInRange(ptr) /\ ReplyInRange(ptr + len - 1)
      THEN [ok |-> TRUE, ptr |-> ptr + len, pos |-> ptr..(ptr + len - 1)]
      ELSE [ok |-> FALSE, ptr |-> ptr, pos |-> {}]

\* a slice that takes nhandles words whatever the body holds
BodySliceUnchecked(nhandles, body_len) == TRUE

\* &body[0..nhandles]: slicing panics unless nhandles <= body.len()
BodySliceOk(nhandles, body_len) == nhandles <= body_len

Panicked == [panicked |-> TRUE, result_code |-> ZeroWord, command_id |-> 0,
             has_values |-> FALSE, values |-> {}, has_handles |-> FALSE,
             handles |-> {}, reads |-> {}]

\* Reply::parse_nofail on a ReplyBuffer whose read pointer is at word 0
Reply_parse_nofail(r) ==
    LET hd == ReplyBuffer_read(0)
        header == ReplyWordAt(r, 0)
        count == IpcHeader_normal_param_words(header)
        word_size == IpcHeader_translate_param_words(header)
        rc == ReplyBuffer_read(hd.ptr)
        vals == ReplyBuffer_read_range(rc.ptr, count - 1)
        normal_ok == count = 0 \/ (rc.ok /\ vals.ok)
        ptr == IF count = 0 THEN hd.ptr ELSE vals.ptr
        tr == ReplyBuffer_read_range(ptr, word_size)
        descriptor == ReplyWordAt(r, ptr)
        nhandles == TranslationDescriptor_len(descriptor) + 1
        has_tr == word_size >= 2
        tr_ok == (~has_tr) \/ (tr.ok /\ BodySliceOk(nhandles, word_size - 1))
    IN IF ~hd.ok \/ ~normal_ok \/ ~tr_ok THEN Panicked
       ELSE [panicked |-> FALSE,
             result_code |-> IF count = 0 THEN NoResultCode ELSE ReplyWordAt(r, hd.ptr),
             command_id |-> IpcHeader_command_id(header),
             has_values |-> count # 0,
             values |-> IF count = 0 THEN {} ELSE vals.pos,
             has_handles |-> has_tr,
             handles |-> IF has_tr THEN (ptr + 1)..(ptr + nhandles) ELSE {},
             reads |-> hd.pos \cup (IF count = 0 THEN {} ELSE rc.pos)
                         \cup (IF has_tr THEN {ptr} ELSE {})]

\* ------------------------------------------------------------------------
\* The calls that receive a reply.  send_sync_request either fails (the
\* error is returned and nothing is parsed) or leaves the reply.

Returned(how, code) == [kind |-> how, code |-> code]

\* IpcRequest::dispatch of src/ipc/mod.rs:
\* self.dispatch_no_parse(h).and_then(Reply::parse), with
\* Reply::parse = parse_nofail, then result_code.and(reply)
Dispatch(transport_ok) ==
    /\ reply_pc = "sending"
    /\ IF ~transport_ok
         THEN /\ reply_pc' = "done"
              /\ outcome' = Returned("err", SomeError)
              /\ UNCHANGED <<readPos, exposed, handlesMade>>
         ELSE LET res == Reply_parse_nofail(reply)
              IN /\ readPos' = res.reads
                 /\ handlesMade' = res.handles
                 /\ IF res.panicked
                      THEN reply_pc' = "panicked" /\ outcome' = Returned("panic", ZeroWord)
                                                  /\ exposed' = {}
                      ELSE /\ reply_pc' = "done"
                           /\ IF is_err(res.result_code)
                                THEN /\ outcome' = Returned("err", res.result_code)
                                     /\ exposed' = {}
                                ELSE /\ outcome' = Returned("ok", res.result_code)
                                     /\ exposed' = res.values \cup res.handles
    /\ lastCall' = [op |-> "dispatch", at |-> 0, len |-> 0, api |-> "parse", sent |-> transport_ok]
    /\ UNCHANGED <<nonReplyVars, reply, read_ptr>>

\* dispatch_no_parse followed by Reply::parse_nofail: the reply and the
\* result code are both handed to the caller
DispatchParseNoFail(transport_ok) ==
    /\ reply_pc = "sending"
    /\ IF ~transport_ok
         THEN /\ reply_pc' = "done"
              /\ outcome' = Returned("err", SomeError)
              /\ UNCHANGED <<readPos, exposed, handlesMade>>
         ELSE LET res == Reply_parse_nofail(reply)
              IN /\ readPos' = res.reads
                 /\ handlesMade' = res.handles
                 /\ exposed' = res.values \cup res.handles
                 /\ IF res.panicked
                      THEN reply_pc' = "panicked" /\ outcome' = Returned("panic", ZeroWord)
                      ELSE reply_pc' = "done" /\ outcome' = Returned("pair", res.result_code)
    /\ lastCall' = [op |-> "dispatch", at |-> 0, len |-> 0, api |-> "parse_nofail",
                   sent |-> transport_ok]
    /\ UNCHANGED <<nonReplyVars, reply, read_ptr>>

\* dispatch_no_parse alone: the caller gets the ReplyBuffer
DispatchNoParseOk ==
    /\ reply_pc = "sending"
    /\ reply_pc' = "raw"
    /\ read_ptr' = 0
    /\ lastCall' = [op |-> "new", at |-> 0, len |-> 0, api |-> "raw", sent |-> TRUE]
    /\ UNCHANGED <<nonReplyVars, reply, outcome, readPos, exposed, handlesMade>>

\* ReplyBuffer::read called on the buffer
BufRead ==
    /\ reply_pc = "raw"
    /\ LET rd == ReplyBuffer_read(read_ptr)
       IN /\ read_ptr' = rd.ptr
          /\ readPos' = rd.pos
          /\ exposed' = {}
          /\ reply_pc' = IF rd.ok THEN "raw" ELSE "panicked"
          /\ outcome' = IF rd.ok THEN Returned("word", ReplyWordAt(reply, read_ptr))
                                 ELSE Returned("panic", ZeroWord)
    /\ lastCall' = [op |-> "read", at |-> read_ptr, len |-> 1, api |-> "raw", sent |-> TRUE]
    /\ UNCHANGED <<nonReplyVars, reply, handlesMade>>

\* ReplyBuffer::read_range(len) called on the buffer
BufReadRange(len) ==
    /\ reply_pc = "raw"
    /\ LET rd == ReplyBuffer_read_range(read_ptr, len)
       IN /\ read_ptr' = rd.ptr
          /\ readPos' = {}
          /\ exposed' = rd.pos
          /\ reply_pc' = IF rd.ok THEN "raw" ELSE "panicked"
          /\ outcome' = IF rd.ok THEN Returned("slice", ZeroWord)
                                 ELSE Returned("panic", ZeroWord)
    /\ lastCall' = [op |-> "read_range", at |-> read_ptr, len |-> len, api |-> "raw", sent |-> TRUE]
    /\ UNCHANGED <<nonReplyVars, reply, handlesMade>>

\* ---- the request builder of src/ipc/request.rs and its IpcReply reader

\* IpcReply::read_result: the word after the header
IpcReply_read_result(r) == [value |-> ReplyWordAt(r, 1), pos |-> {1}, ptr |-> 2]

\* IpcReply::read_word: the next normal word
IpcReply_read_word(r, ptr) == [value |-> ReplyWordAt(r, ptr), pos |-> {ptr}, ptr |-> ptr + 1]

\* IpcReply::finish_results: on to the translate words the header declares
IpcReply_finish_results(r) == IpcHeader_normal_param_words(ReplyWordAt(r, 0)) + 1

\* IpcReplyTranslate::read_handle: the descriptor, then the word made a handle
IpcReply_read_handle(r, ptr) == [pos |-> {ptr}, handle |-> {ptr + 1}, ptr |-> ptr + 2]

\* IpcRequest::dispatch of src/ipc/request.rs: dispatch_no_fail, then
\* result.into_result()?
RequestDispatch(transport_ok) ==
    /\ reply_pc = "sending"
    /\ reply_pc' = "done"
    /\ IF ~transport_ok
         THEN /\ outcome' = Returned("err", SomeError)
              /\ UNCHANGED readPos
         ELSE LET result == IpcReply_read_result(reply)
              IN /\ readPos' = result.pos
                 /\ outcome' = IF is_err(result.value)
                                 THEN Returned("err", result.value)
                                 ELSE Returned("ok", result.value)
    /\ lastCall' = [op |-> "dispatch", at |-> 0, len |-> 0, api |-> "request",
                   sent |-> transport_ok]
    /\ UNCHANGED <<nonReplyVars, reply, read_ptr, exposed, handlesMade>>

\* Gpu::register_interrupt_relay_queue: dispatch_no_fail, read_word,
\* finish_results().read_handle(), and only then result_code.into_result()
RegisterInterruptRelayQueue(transport_ok) ==
    /\ reply_pc = "sending"
    /\ reply_pc' = "done"
    /\ IF ~transport_ok
         THEN /\ outcome' = Returned("err", SomeError)
              /\ UNCHANGED <<readPos, handlesMade>>
         ELSE LET result == IpcReply_read_result(reply)
                  index == IpcReply_read_word(reply, result.ptr)
                  queue == IpcReply_read_handle(reply, IpcReply_finish_results(reply))
              IN /\ readPos' = result.pos \cup index.pos \cup queue.pos
                 /\ handlesMade' = queue.handle
                 /\ outcome' =
                      IF ~is_err(result.value) THEN Returned("ok", result.value)
                      ELSE IF result.value = RESULT_NEED_HW_INIT
                        THEN Returned("init_hardware", result.value)
                        ELSE Returned("err", result.value)
    /\ lastCall' = [op |-> "dispatch", at |-> 0, len |-> 0, api |-> "gpu",
                   sent |-> transport_ok]
    /\ UNCHANGED <<nonReplyVars, reply, read_ptr, exposed>>

\* the request has trapped; the kernel may answer with any of the replies
InitReply ==
    /\ reply_pc = "sending"
    /\ reply \in Replies
    /\ read_ptr = 0
    /\ outcome = Returned("none", ZeroWord)
    /\ readPos = {}
    /\ exposed = {}
    /\ handlesMade = {}
    /\ lastCall = [op |-> "none", at |-> 0, len |-> 0, api |-> "none", sent |-> FALSE]

\* no reply is being received
ReplyIdle ==
    /\ reply_pc = "idle"
    /\ reply = [id |-> 0, n |-> 0, m |-> 0, rc |-> ZeroWord, dfield |-> 0]
    /\ read_ptr = 0
    /\ outcome = Returned("none", ZeroWord)
    /\ readPos = {}
    /\ exposed = {}
    /\ handlesMade = {}
    /\ lastCall = [op |-> "none", at |-> 0, len |-> 0, api |-> "none", sent |-> FALSE]

RangeLens == {0, 2, HeaderFieldMask}

NextReply ==
    \/ \E ok \in BOOLEAN : Dispatch(ok)
    \/ \E ok \in BOOLEAN : DispatchParseNoFail(ok)
    \/ \E ok \in BOOLEAN : RequestDispatch(ok)
    \/ \E ok \in BOOLEAN : RegisterInterruptRelayQueue(ok)
    \/ DispatchNoParseOk
    \/ BufRead
    \/ \E len \in RangeLens : BufReadRange(len)

\* ------------------------------------------------------------------------
\* SharedMemoryMapper (src/os/sharedmem.rs).  Every address and region size
\* is a multiple of the page size; they are counted in pages, so that the
\* whole 32-bit address space fits the integers.

\* (size + 0xFFF) & !0xFFF rounds to pages of 0x1000 bytes
PAGE_SIZE == 4096

\* SHAREDMEM_START = 0x10_000_000 and SHAREDMEM_END = 0x14_000_000, in pages
SHAREDMEM_START == 65536
SHAREDMEM_END == 81920

\* usize::MAX + 1 = 2^32 bytes, in pages
UsizePages == 1048576

\* Option::None of an address
NoAddress == 0 - 1

\* usize::checked_add, usize::checked_sub, usize::saturating_add
checked_add(a, b) == IF a + b < UsizePages THEN a + b ELSE NoAddress
checked_sub(a, b) == IF a >= b THEN a - b ELSE NoAddress
saturating_add(a, b) == IF a + b < UsizePages THEN a + b ELSE UsizePages

\* let size = (size + 0xFFF) & !0xFFF, for a size in bytes; the result in pages
PageRound(size) == (size + (PAGE_SIZE - 1)) \div PAGE_SIZE

\* ---- the kernel's memory map: regions that tile the address space.  A map
\* is the set of the region bases above 0 and the set of the bases of the
\* free regions; region boundaries fall on quarters of the window.

RegionUnit == (SHAREDMEM_END - SHAREDMEM_START) \div 4

CutPoints == {SHAREDMEM_START + (k * RegionUnit) : k \in 0..4}

MemoryMaps ==
    UNION {[cuts : {c}, free : SUBSET (c \cup {0})] : c \in SUBSET CutPoints}

\* svc::query_memory(addr): the region that contains addr
query_memory(mm, addr) ==
    LET bases == mm.cuts \cup {0}
        base == CHOOSE b \in bases : b <= addr /\ \A c \in bases : c <= addr => c <= b
        above == {b \in mm.cuts : b > addr}
        end == IF above = {} THEN UsizePages
               ELSE CHOOSE b \in above : \A c \in above : b <= c
    IN [base_process_virtual_address |-> base,
        size |-> end - base,
        free |-> base \in mm.free]

\* a remaining_free that takes the whole region for what is left of it
remaining_free_whole(block, address) == block.size

\* SharedMemoryMapper::remaining_free
remaining_free(block, address) ==
    LET offset_in_block == checked_sub(address, block.base_process_virtual_address)
    IN IF offset_in_block = NoAddress THEN NoAddress
       ELSE checked_sub(block.size, offset_in_block)

\* the step from a probe that was no gap: the probe plus the size of its region
NextCandidate(candidate_addr, block) == checked_add(candidate_addr, block.size)

\* the loop condition: candidate_addr.checked_add(size) is Some and < end
WithinBound(candidate_addr, end, size) ==
    /\ checked_add(candidate_addr, size) # NoAddress
    /\ checked_add(candidate_addr, size) < end

RECURSIVE find_gap_within(_, _, _, _, _)
\* SharedMemoryMapper::find_gap_within(start, end, size) on memory map mm;
\* query number `budget` + 1 fails.  Yields the result, the probes queried
\* and, for every probe that was not taken, the candidate_addr that followed.
find_gap_within(mm, start, end, size, budget) ==
    IF ~WithinBound(start, end, size)
      THEN [result |-> "none", address |-> NoAddress, queries |-> <<>>, jumps |-> <<>>]
    ELSE IF budget = 0
      THEN [result |-> "err", address |-> NoAddress, queries |-> <<start>>,
            jumps |-> <<>>]
    ELSE
      LET block == query_memory(mm, start)
          free == remaining_free(block, start)
          next == NextCandidate(start, block)
      IN IF block.free /\ free # NoAddress /\ free >= size
           THEN [result |-> "some", address |-> start, queries |-> <<start>>,
                 jumps |-> <<>>]
         ELSE IF next = NoAddress
           THEN [result |-> "none", address |-> NoAddress, queries |-> <<start>>,
                 jumps |-> <<<<start, next>>>>]
         ELSE LET rest == find_gap_within(mm, next, end, size, budget - 1)
              IN [rest EXCEPT !.queries = <<start>> \o rest.queries,
                              !.jumps = <<<<start, next>>>> \o rest.jumps]

\* SharedMemoryMapper::find_gap(size); `wrapped` tells the second scan ran
\* and `first` counts the probes of the first scan
find_gap(mm, cursor, size, budget) ==
    LET up == find_gap_within(mm, cursor, SHAREDMEM_END, size, budget)
        down == find_gap_within(mm, SHAREDMEM_START, cursor, size,
                                budget - Len(up.queries))
    IN IF up.result # "none"
         THEN [result |-> up.result, address |-> up.address, queries |-> up.queries,
               first |-> Len(up.queries), wrapped |-> FALSE, jumps |-> up.jumps]
         ELSE [result |-> down.result, address |-> down.address,
               queries |-> up.queries \o down.queries,
               first |-> Len(up.queries), wrapped |-> TRUE,
               jumps |-> up.jumps \o down.jumps]

\* ---- map and unmap

\* Level::Fatal, Summary::OutOfResource and the description of the error
LevelFatal == 31
SummaryOutOfResource == 3
OutOfResourceDescription == 1011

\* ErrorCode::new(Level::Fatal, Summary::OutOfResource, Module::Application, 1011)
OutOfResource ==
    ResultCode_new(LevelFatal, SummaryOutOfResource, ModuleApplication,
                   OutOfResourceDescription)

\* the sizes in bytes handed to map
MapSizes == {(RegionUnit * PAGE_SIZE) - 1, 2 * RegionUnit * PAGE_SIZE,
             4 * RegionUnit * PAGE_SIZE}

\* the queries that succeed before svc::query_memory fails, if it does
QueryBudgets == {0, 1, 2 * (Cardinality(CutPoints) + 1)}

\* a cursor that is never brought back to the start of the window
AdvanceCursorNoWrap(cursor, size) == saturating_add(cursor, size)

\* let next = self.next_candidate.saturating_add(size);
\* if next >= SHAREDMEM_END { SHAREDMEM_START } else { next }
AdvanceCursor(cursor, size) ==
    LET next == saturating_add(cursor, size)
    IN IF next >= SHAREDMEM_END THEN SHAREDMEM_START ELSE next

\* a cursor that moves whether or not the search found a gap
CursorAfterMapAlways(cursor, size, found) == AdvanceCursor(cursor, size)

\* the cursor after map: `?` returns before the cursor update unless the
\* search found a gap
CursorAfterMap(cursor, size, found) ==
    IF found THEN AdvanceCursor(cursor, size) ELSE cursor

\* a cursor reset before the unmap syscall's result is looked at
CursorAfterUnmapEager(cursor, start, unmapped) == start

\* the cursor after unmap: `?` returns before the reset when the syscall fails
CursorAfterUnmap(cursor, start, unmapped) ==
    IF unmapped THEN start ELSE cursor

\* ---- the kernel's side of svc::map_memory_block and svc::unmap_memory_block

\* the memory map with the pages a .. b-1 made one region, free or not
KernelSet(mm, a, b, is_free) ==
    LET cuts == (mm.cuts \ {c \in mm.cuts : a < c /\ c < b}) \cup {a, b}
    IN [cuts |-> cuts,
        free |-> {x \in cuts \cup {0} :
                     IF x = a THEN is_free
                     ELSE IF x = b THEN query_memory(mm, b).free
                     ELSE x \in mm.free}]

\* the memory map with the boundaries in `at` dropped where the regions on
\* both sides are alike (the kernel merges blocks of equal attributes)
KernelCoalesce(mm, at) ==
    LET gone == {c \in mm.cuts \cap at :
                    query_memory(mm, c).free = query_memory(mm, c - 1).free}
    IN [cuts |-> mm.cuts \ gone, free |-> mm.free \ gone]

\* the handles a caller can pass: the least one no held block owns
FreshHandle == CHOOSE h \in 1..(Cardinality(blocks) + 1) :
                  /\ \A b \in blocks : b.handle # h
                  /\ \A g \in 1..(h - 1) : \E b \in blocks : b.handle = g

ShmReturned(call, how, code, block, syscall, closed, search, cursor) ==
    [op |-> call, kind |-> how, code |-> code, block |-> block,
     syscall |-> syscall, closed |-> closed, search |-> search, before |-> cursor]

NoBlock == [start |-> NoAddress, size |-> 0, handle |-> 0]

\* SharedMemoryMapper::map(memory_handle, size); map_ok tells whether
\* svc::map_memory_block succeeds
Map(bytes, budget, map_ok) ==
    LET size == PageRound(bytes)
        memory_handle == FreshHandle
        gap == find_gap(mem_map, next_candidate, size, budget)
        found == gap.result = "some"
        block == [start |-> gap.address, size |-> size, handle |-> memory_handle]
        mapped == KernelSet(mem_map, gap.address, gap.address + size, FALSE)
    IN /\ next_candidate' = CursorAfterMap(next_candidate, size, found)
       /\ IF found /\ map_ok
            THEN /\ blocks' = blocks \cup {block}
                 /\ mem_map' = mapped
                 /\ shm_outcome' = ShmReturned("map", "ok", ZeroWord, block, TRUE, {},
                                                  gap.result, next_candidate)
            ELSE /\ blocks' = blocks
                 /\ mem_map' = mem_map
                 /\ shm_outcome' =
                      ShmReturned("map", "err",
                                  IF gap.result = "none" THEN OutOfResource
                                                         ELSE SomeError,
                                  NoBlock, found, {memory_handle}, gap.result,
                                  next_candidate)
       /\ UNCHANGED <<nonShmVars, lastSearch>>

\* SharedMemoryMapper::unmap(block); unmapped tells whether
\* svc::unmap_memory_block succeeds.  On failure the block, and its handle
\* with it, is dropped.  The kernel merges the freed pages with free neighbours.
Unmap(block, unmapped) ==
    /\ block \in blocks
    /\ blocks' = blocks \ {block}
    /\ next_candidate' = CursorAfterUnmap(next_candidate, block.start, unmapped)
    /\ mem_map' = IF unmapped
                    THEN KernelCoalesce(KernelSet(mem_map, block.start,
                                                  block.start + block.size, TRUE),
                                        {block.start, block.start + block.size})
                    ELSE mem_map
    /\ shm_outcome' = IF unmapped
                        THEN ShmReturned("unmap", "ok", ZeroWord, block, TRUE, {},
                                         "no search", next_candidate)
                        ELSE ShmReturned("unmap", "err", SomeError, block, TRUE,
                                         {block.handle}, "no search", next_candidate)
    /\ UNCHANGED <<nonShmVars, lastSearch>>

NoSearch == [size |-> 0, result |-> "no search", address |-> NoAddress,
             queries |-> <<>>, first |-> 0, wrapped |-> FALSE, jumps |-> <<>>]

NoOutcome == ShmReturned("none", "none", ZeroWord, NoBlock, FALSE, {}, "no search",
                         SHAREDMEM_START)

\* SharedMemoryMapper::new, in a process whose memory map is any of the maps
InitShm ==
    /\ next_candidate = SHAREDMEM_START
    /\ mem_map \in MemoryMaps
    /\ blocks = {}
    /\ lastSearch = NoSearch
    /\ shm_outcome = NoOutcome

\* no mapper is in use
ShmIdle ==
    /\ next_candidate = SHAREDMEM_START
    /\ mem_map = [cuts |-> {}, free |-> {}]
    /\ blocks = {}
    /\ lastSearch = NoSearch
    /\ shm_outcome = NoOutcome

NextShm ==
    \/ \E bytes \in MapSizes, budget \in QueryBudgets, map_ok \in BOOLEAN :
          Map(bytes, budget, map_ok)
    \/ \E block \in blocks, unmapped \in BOOLEAN : Unmap(block, unmapped)

\* ---- the gap search alone, on any memory map and any cursor map and unmap
\* can leave

Cursors == {SHAREDMEM_START + (k * RegionUnit) : k \in 0..3}

\* SharedMemoryMapper::find_gap(size) called once
FindGap(bytes, budget) ==
    /\ lastSearch.result = "no search"
    /\ LET size == PageRound(bytes)
           gap == find_gap(mem_map, next_candidate, size, budget)
       IN lastSearch' = [size |-> size, result |-> gap.result,
                         address |-> gap.address, queries |-> gap.queries,
                         first |-> gap.first, wrapped |-> gap.wrapped,
                         jumps |-> gap.jumps]
    /\ UNCHANGED <<nonShmVars, next_candidate, mem_map, blocks, shm_outcome>>

InitGap ==
    /\ next_candidate \in Cursors
    /\ mem_map \in MemoryMaps
    /\ blocks = {}
    /\ lastSearch = NoSearch
    /\ shm_outcome = NoOutcome

NextGap == \E bytes \in MapSizes, budget \in QueryBudgets : FindGap(bytes, budget)

\* ------------------------------------------------------------------------
\* The svc! macro (ctru-rt-macros/src/svc_spec.rs): input registers

\* Named { register: None }
NoRegister == 0 - 1

\* parameters of one binding
MaxParams == 3

\* the names of the Named and Split parameters, in the order they appear
ParamNames == <<"foo", "bar", "baz", "qux">>

\* the explicit registers a parameter is given with `in "rN"`
ExplicitRegisters == 0..3

\* InputParameterSpec without the name: Unused, Named or Split
ParamShapes ==
    [kind : {"Unused", "Split"}, register : {NoRegister}]
      \cup [kind : {"Named"}, register : {NoRegister} \cup ExplicitRegisters]

\* the parameter lists of at most MaxParams parameters, each Named or Split
\* parameter with the next name
InputSpecs ==
    LET shapes == UNION {[1..n -> ParamShapes] : n \in 0..MaxParams}
        named(sh, i) == Cardinality({j \in 1..i : sh[j].kind # "Unused"})
    IN {[i \in 1..Len(sh) |->
           [kind |-> sh[i].kind, register |-> sh[i].register,
            name |-> IF sh[i].kind = "Unused" THEN "_"
                     ELSE ParamNames[named(sh, i)]]] : sh \in shapes}

\* an unused slot that consumes no register
SkipUnusedStay(auto_register) == auto_register

\* InputParameterSpec::Unused(_) => { auto_register += 1; continue; }
SkipUnused(auto_register) == auto_register + 1

\* parameters.iter().find(|prev| prev.register == register.0)
Occupied(parameters, register) ==
    \E k \in 1..Len(parameters) : parameters[k].register = register

RECURSIVE ParametersFrom(_, _, _, _)
\* the loop of InputSpec::parameters from parameter i on
ParametersFrom(spec, i, auto_register, parameters) ==
    IF i > Len(spec) THEN [panicked |-> FALSE, parameters |-> parameters]
    ELSE IF spec[i].kind = "Unused"
      THEN ParametersFrom(spec, i + 1, SkipUnused(auto_register), parameters)
    ELSE IF spec[i].kind = "Split"
      THEN [panicked |-> TRUE, parameters |-> parameters]
    ELSE IF spec[i].register # NoRegister /\ Occupied(parameters, spec[i].register)
      THEN [panicked |-> TRUE, parameters |-> parameters]
    ELSE LET register == IF spec[i].register # NoRegister THEN spec[i].register
                         ELSE auto_register
         IN ParametersFrom(spec, i + 1, register + 1,
                           Append(parameters,
                                  [name |-> spec[i].name, register |-> register]))

\* InputSpec::parameters
InputSpec_parameters(spec) == ParametersFrom(spec, 1, 0, <<>>)

NotExpanded == [panicked |-> FALSE, parameters |-> <<>>, done |-> FALSE]

\* the macro expands the input specification of a binding
ExpandInputs ==
    /\ ~input_params.done
    /\ LET res == InputSpec_parameters(input_spec)
       IN input_params' = [panicked |-> res.panicked, parameters |-> res.parameters,
                           done |-> TRUE]
    /\ UNCHANGED <<nonSvcVars, input_spec, binding, out_regs, svc_result>>

\* ------------------------------------------------------------------------
\* The svc! macro: output registers, and the bindings of src/svc.rs

\* the declared outputs of a binding: at most the five of svc::query_memory
MaxOutputs == 5

\* OutputSpec: NoReturn, Unit, Single(ty) and Multiple(types) with the number
\* of types; "tick" is svc::get_system_tick_count, written without svc!
Bindings ==
    [by : {"svc!"}, output : {"NoReturn", "Unit", "Single"}, types : {0}]
      \cup [by : {"svc!"}, output : {"Multiple"}, types : 0..MaxOutputs]
      \cup [by : {"asm!"}, output : {"tick"}, types : {2}]

\* OutputSpec::parameters: None, or the result in r0 and the outputs in r1..
OutputSpec_parameters(b) ==
    IF b.output = "NoReturn" THEN [some |-> FALSE, result |-> 0, params |-> <<>>]
    ELSE [some |-> TRUE, result |-> 0,
          params |-> IF b.output = "Unit" THEN <<>>
                     ELSE IF b.output = "Single" THEN <<1>>
                     ELSE [k \in 1..b.types |-> k]]

\* ResultCode::and: the value is built before the result code is looked at
ResultCode_and_runs(code) == TRUE

\* ResultCode::and_then(f): self.into_result().map(|_| f()) runs f on Ok only
ResultCode_and_then_runs(code) == ~is_err(code)

SvcReturned(how, code, decoded) == [kind |-> how, code |-> code, decoded |-> decoded]

\* the code SvcSpec::to_asm_call emits, run on the registers the kernel left
to_asm_call(b, regs) ==
    LET out == OutputSpec_parameters(b)
        result_code == regs[out.result]
    IN IF ~out.some THEN SvcReturned("noreturn", ZeroWord, <<>>)
       ELSE IF ResultCode_and_then_runs(result_code)
         THEN SvcReturned("ok", result_code, out.params)
         ELSE SvcReturned("err", result_code, <<>>)

\* svc::get_system_tick_count: (tick_high as u64) << 32 | tick_low as u64
\* from lateout("r0") tick_high, lateout("r1") tick_low
get_system_tick_count(regs) == SvcReturned("ok", ZeroWord, <<0, 1>>)

\* what the trap leaves in a register: zero or not
RegisterValues == {ZeroWord, SomeError}

\* a binding is called and the kernel returns with any register contents
SvcCall(regs) ==
    /\ svc_result.kind = "none"
    /\ binding.by = "svc!"
    /\ out_regs' = regs
    /\ svc_result' = to_asm_call(binding, regs)
    /\ UNCHANGED <<nonSvcVars, input_spec, input_params, binding>>

GetSystemTickCount(regs) ==
    /\ svc_result.kind = "none"
    /\ binding.by = "asm!"
    /\ out_regs' = regs
    /\ svc_result' = get_system_tick_count(regs)
    /\ UNCHANGED <<nonSvcVars, input_spec, input_params, binding>>

NoRegs == [r \in 0..MaxOutputs |-> ZeroWord]

SvcIdle ==
    /\ input_spec = <<>>
    /\ input_params = NotExpanded
    /\ binding = [by |-> "svc!", output |-> "Unit", types |-> 0]
    /\ out_regs = NoRegs
    /\ svc_result = SvcReturned("none", ZeroWord, <<>>)

InitSvcIn ==
    /\ input_spec \in InputSpecs
    /\ input_params = NotExpanded
    /\ binding = [by |-> "svc!", output |-> "Unit", types |-> 0]
    /\ out_regs = NoRegs
    /\ svc_result = SvcReturned("none", ZeroWord, <<>>)

InitSvcOut ==
    /\ input_spec = <<>>
    /\ input_params = NotExpanded
    /\ binding \in Bindings
    /\ out_regs = NoRegs
    /\ svc_result = SvcReturned("none", ZeroWord, <<>>)

NextSvcIn == ExpandInputs

NextSvcOut ==
    \/ \E regs \in [0..MaxOutputs -> RegisterValues] : SvcCall(regs)
    \/ \E regs \in [0..MaxOutputs -> RegisterValues] : GetSystemTickCount(regs)

\* ------------------------------------------------------------------------
\* Spawned threads (thread.rs)

\* calls of ThreadBuilder::spawn
MaxSpawns == 2

SpawnIds == 1..MaxSpawns

\* what a closure returns
ReturnValues == {1, 2}

\* the return slot as alloc::alloc::alloc leaves it
Uninit == 0

\* ThreadMemory before allocate, and the thread and handle of a spawn not made
NoMemory == [state |-> "unallocated", frees |-> 0, slot |-> Uninit]
NoThreadYet == [state |-> "none", f |-> Uninit]
NoJoinHandle == [kind |-> "none", value |-> Uninit, exited |-> FALSE]

\* a join that deallocates whatever the wait returned
JoinDeallocsAlways(waited) == TRUE

\* JoinHandle::join: svc::wait_synchronization(..)? returns before dealloc
JoinDeallocs(waited) == waited

\* ThreadBuilder::spawn with a closure returning v
Spawn(id, v, created) ==
    /\ memory[id].state = "unallocated"
    /\ memory' = [memory EXCEPT ![id].state = "allocated"]
    /\ IF created
         THEN /\ thread' = [thread EXCEPT ![id] = [state |-> "created", f |-> v]]
              /\ join_handle' = [join_handle EXCEPT ![id].kind = "joinable"]
         ELSE /\ thread' = thread
              /\ join_handle' = [join_handle EXCEPT ![id].kind = "spawn_err"]
    /\ UNCHANGED nonThrVars

\* _ctru_rt_thread_start: (packet.entry_point)() runs f and stores its value
ThreadRun(id) ==
    /\ thread[id].state = "created"
    /\ memory' = [memory EXCEPT ![id].slot = thread[id].f]
    /\ thread' = [thread EXCEPT ![id].state = "stored"]
    /\ UNCHANGED <<nonThrVars, join_handle>>

\* _ctru_rt_thread_start: svc::exit_thread()
ThreadExit(id) ==
    /\ thread[id].state = "stored"
    /\ thread' = [thread EXCEPT ![id].state = "exited"]
    /\ UNCHANGED <<nonThrVars, memory, join_handle>>

\* JoinHandle::join; the kernel ends the wait with Ok only for an exited thread
Join(id, waited) ==
    /\ join_handle[id].kind = "joinable"
    /\ waited => thread[id].state = "exited"
    /\ memory' = IF JoinDeallocs(waited)
                   THEN [memory EXCEPT ![id].state = "freed",
                                       ![id].frees = memory[id].frees + 1]
                   ELSE memory
    /\ join_handle' = [join_handle EXCEPT ![id] =
         IF waited
           THEN [kind |-> "ok", value |-> memory[id].slot,
                 exited |-> thread[id].state = "exited"]
           ELSE [kind |-> "err", value |-> Uninit,
                 exited |-> thread[id].state = "exited"]]
    /\ UNCHANGED <<nonThrVars, thread>>

\* a JoinHandle dropped without join: only its OwnedHandle has a Drop
DropJoinHandle(id) ==
    /\ join_handle[id].kind = "joinable"
    /\ join_handle' = [join_handle EXCEPT ![id].kind = "dropped"]
    /\ UNCHANGED <<nonThrVars, memory, thread>>

ThrIdle ==
    /\ memory = [id \in SpawnIds |-> NoMemory]
    /\ thread = [id \in SpawnIds |-> NoThreadYet]
    /\ join_handle = [id \in SpawnIds |-> NoJoinHandle]

NextThr ==
    \/ \E id \in SpawnIds, v \in ReturnValues, created \in BOOLEAN : Spawn(id, v, created)
    \/ \E id \in SpawnIds : ThreadRun(id)
    \/ \E id \in SpawnIds : ThreadExit(id)
    \/ \E id \in SpawnIds, waited \in BOOLEAN : Join(id, waited)
    \/ \E id \in SpawnIds : DropJoinHandle(id)

\* ------------------------------------------------------------------------
\* The header and descriptor words (ipc/mod.rs), encoded and decoded

\* the largest word count handed to IpcHeader::new
MaxHeaderWords == 64

\* the largest handle count handed to TranslationDescriptor::new
MaxHandleCount == 64

\* TranslationDescriptor::handle_translation_type: ((self.0 >> 4) & 0b1) == 0
TranslationDescriptor_handle_translation_type(d) ==
    IF (d[2] \div 16) % 2 = 0 THEN Clone ELSE Move

HeaderInputs ==
    [kind : {"header"}, command_id : {0, 5, Half - 1},
     normal : 0..MaxHeaderWords, translate : 0..MaxHeaderWords,
     len : {0}, flag : {Clone}]

DescriptorInputs ==
    [kind : {"descriptor"}, command_id : {0}, normal : {0}, translate : {0},
     len : 1..MaxHandleCount, flag : {Clone, Move}]

NotEncoded == [done |-> FALSE, word |-> ZeroWord, command_id |-> 0, normal |-> 0,
               translate |-> 0, len |-> 0, flag |-> Clone]

\* IpcHeader::new, then command_id(), normal_param_words(), translate_param_words()
EncodeDecodeHeader ==
    /\ codec_in.kind = "header" /\ ~codec_out.done
    /\ LET header == IpcHeader_new(codec_in.command_id, codec_in.normal,
                                   codec_in.translate)
       IN codec_out' = [done |-> TRUE, word |-> header,
                        command_id |-> IpcHeader_command_id(header),
                        normal |-> IpcHeader_normal_param_words(header),
                        translate |-> IpcHeader_translate_param_words(header),
                        len |-> 0, flag |-> Clone]
    /\ UNCHANGED <<nonCodecVars, codec_in>>

\* TranslationDescriptor::new, then len() and handle_translation_type()
EncodeDecodeDescriptor ==
    /\ codec_in.kind = "descriptor" /\ ~codec_out.done
    /\ LET descriptor == TranslationDescriptor_new(codec_in.len, codec_in.flag)
       IN codec_out' = [done |-> TRUE, word |-> descriptor,
                        command_id |-> 0, normal |-> 0, translate |-> 0,
                        len |-> TranslationDescriptor_len(descriptor),
                        flag |-> TranslationDescriptor_handle_translation_type(descriptor)]
    /\ UNCHANGED <<nonCodecVars, codec_in>>

CodecIdle ==
    /\ codec_in = [kind |-> "none", command_id |-> 0, normal |-> 0, translate |-> 0,
                   len |-> 0, flag |-> Clone]
    /\ codec_out = NotEncoded

InitCodec ==
    /\ codec_in \in HeaderInputs \cup DescriptorInputs
    /\ codec_out = NotEncoded

NextCodec ==
    \/ EncodeDecodeHeader
    \/ EncodeDecodeDescriptor

\* ------------------------------------------------------------------------
\* Result codes (result.rs)

\* the Unknown(u8) variant of Level, Summary and Module; a named variant is
\* written as the number From maps to it
Unknown(code) == 256 + code

IsUnknown(variant) == variant >= Unknown(0)

LevelNames == {0, 1} \cup 25..31

SummaryNames == 0..11 \cup {63}

ModuleNames == 0..87 \cup 90..97 \cup {254, 255}

\* Module::Invalid, the variant From<u8> gives for 255
ModuleInvalid == 255

\* From<u32> for Level: match code as u8
Level_from(code) ==
    IF (code % 256) \in LevelNames THEN code % 256 ELSE Unknown(code % 256)

\* Into<u32> for Level: Unknown(code) => code & 0b1_1111
Level_into(variant) ==
    IF IsUnknown(variant) THEN (variant - Unknown(0)) % 32 ELSE variant

\* From<u32> for Summary: match code as u8
Summary_from(code) ==
    IF (code % 256) \in SummaryNames THEN code % 256 ELSE Unknown(code % 256)

\* Into<u32> for Summary: Unknown(code) => code & 0b11_1111
Summary_into(variant) ==
    IF IsUnknown(variant) THEN (variant - Unknown(0)) % 64 ELSE variant

\* From<u8> for Module
Module_from(m) == IF m \in ModuleNames THEN m ELSE Unknown(m)

\* Into<u8> for Module: Module::Invalid => 0, Module::Unknown(m) => m
Module_into(variant) ==
    IF IsUnknown(variant) THEN variant - Unknown(0)
    ELSE IF variant = ModuleInvalid THEN 0
    ELSE variant

\* ResultValue::level: (value >> 27) & 0b1_1111, matched like From<u32>
ResultValue_level(value) == Level_from(value[1] \div 2048)

\* ResultValue::summary: ((value >> 21) & 0b11_1111).into()
ResultValue_summary(value) == Summary_from((value[1] \div 32) % 64)

\* ResultValue::module: (((value >> 10) & 0b1111_1111) as u8).into()
ResultValue_module(value) ==
    Module_from((((value[1] % 4) * 64) + (value[2] \div 1024)) % 256)

\* ResultValue::description: value & 0b11_1111_1111
ResultValue_description(value) == value[2] % 1024

\* Try::into_result
ResultCode_into_result(code) ==
    IF is_err(code) THEN [kind |-> "err", code |-> code]
    ELSE [kind |-> "ok", code |-> ZeroWord]

\* ErrorCode::new: NonZeroU32::new(result.value()).expect(..)
ErrorCode_new(level, summary, module, description) ==
    LET result == ResultCode_new(Level_into(level), Summary_into(summary),
                                 Module_into(module), description)
    IN IF result = ZeroWord THEN [kind |-> "panic", code |-> result]
       ELSE [kind |-> "ErrorCode", code |-> result]

\* the fields handed to ResultCode::new, as the numbers the enums are made of
FieldInputs ==
    [kind : {"fields"}, level : {0, 1, 2, 24, 25, 31},
     summary : {0, 1, 11, 12, 62, 63}, module : 0..255,
     description : {0, 1, 1023}, raw : {ZeroWord}]

\* the 32-bit values handed to From<u32> for ResultCode
RawInputs ==
    [kind : {"raw"}, level : {0}, summary : {0}, module : {0}, description : {0},
     raw : {ZeroWord, <<0, 1>>, <<1, 0>>, <<32768, 0>>, SomeError, <<65535, 65535>>}]

NoResult == [op |-> "none", kind |-> "none", code |-> ZeroWord, ran |-> FALSE,
             level |-> 0, summary |-> 0, module |-> 0, description |-> 0]

\* ResultCode::new, then level(), summary(), module() and description()
ResultCodeNew ==
    /\ rc_in.kind = "fields" /\ rc_out.op = "none"
    /\ LET value == ResultCode_new(Level_into(Level_from(rc_in.level)),
                                   Summary_into(Summary_from(rc_in.summary)),
                                   Module_into(Module_from(rc_in.module)),
                                   rc_in.description)
       IN rc_out' = [op |-> "new", kind |-> "ok", code |-> value, ran |-> FALSE,
                     level |-> ResultValue_level(value),
                     summary |-> ResultValue_summary(value),
                     module |-> ResultValue_module(value),
                     description |-> ResultValue_description(value)]
    /\ UNCHANGED <<nonRcVars, rc_in>>

ErrorCodeNew ==
    /\ rc_in.kind = "fields" /\ rc_out.op = "none"
    /\ LET made == ErrorCode_new(Level_from(rc_in.level), Summary_from(rc_in.summary),
                                 Module_from(rc_in.module), rc_in.description)
       IN rc_out' = [NoResult EXCEPT !.op = "ErrorCode::new", !.kind = made.kind,
                                     !.code = made.code]
    /\ UNCHANGED <<nonRcVars, rc_in>>

\* ResultCode::from(raw).into_result()
IntoResult ==
    /\ rc_in.kind = "raw" /\ rc_out.op = "none"
    /\ LET res == ResultCode_into_result(rc_in.raw)
       IN rc_out' = [NoResult EXCEPT !.op = "into_result", !.kind = res.kind,
                                     !.code = res.code]
    /\ UNCHANGED <<nonRcVars, rc_in>>

\* ResultCode::from(raw).and(value): the value exists before the call
And ==
    /\ rc_in.kind = "raw" /\ rc_out.op = "none"
    /\ LET res == ResultCode_into_result(rc_in.raw)
       IN rc_out' = [NoResult EXCEPT !.op = "and", !.kind = res.kind,
                                     !.code = res.code, !.ran = TRUE]
    /\ UNCHANGED <<nonRcVars, rc_in>>

\* ResultCode::from(raw).and_then(f)
AndThen ==
    /\ rc_in.kind = "raw" /\ rc_out.op = "none"
    /\ LET res == ResultCode_into_result(rc_in.raw)
       IN rc_out' = [NoResult EXCEPT !.op = "and_then", !.kind = res.kind,
                                     !.code = res.code,
                                     !.ran = ResultCode_and_then_runs(rc_in.raw)]
    /\ UNCHANGED <<nonRcVars, rc_in>>

RcIdle ==
    /\ rc_in = [kind |-> "none", level |-> 0, summary |-> 0, module |-> 0,
                description |-> 0, raw |-> ZeroWord]
    /\ rc_out = NoResult

InitRc ==
    /\ rc_in \in FieldInputs \cup RawInputs
    /\ rc_out = NoResult

NextRc ==
    \/ ResultCodeNew
    \/ ErrorCodeNew
    \/ IntoResult
    \/ And
    \/ AndThen

\* ------------------------------------------------------------------------
\* sync.rs, svc.rs, os/mod.rs: RawMutexTimed for OsMutex
\*
\* SystemTick is a u64 and Timeout an i64. A 64-bit value is four 16-bit
\* limbs, most significant first; an i64 is kept as its two's complement bits.

U64(a3, a2, a1, a0) == <<a3, a2, a1, a0>>

Zero64 == U64(0, 0, 0, 0)

\* a < b as unsigned 64-bit values
U64Less(a, b) ==
    \E i \in 1..4 : a[i] < b[i] /\ \A j \in 1..(i - 1) : a[j] = b[j]

\* u64 subtraction of a release build: a - b modulo 2^64
U64WrappingSub(a, b) ==
    LET d4 == a[4] - b[4]
        d3 == a[3] - b[3] - (IF d4 < 0 THEN 1 ELSE 0)
        d2 == a[2] - b[2] - (IF d3 < 0 THEN 1 ELSE 0)
        d1 == a[1] - b[1] - (IF d2 < 0 THEN 1 ELSE 0)
    IN <<(d1 + Half) % Half, (d2 + Half) % Half, (d3 + Half) % Half, (d4 + Half) % Half>>

\* Ord::max of two u64
U64Max(a, b) == IF U64Less(a, b) THEN b ELSE a

\* whether the bits, read as an i64, are below zero
I64Negative(bits) == bits[1] >= 32768

\* svc::Timeout::from_nanoseconds
Timeout_from_nanoseconds(nanoseconds) == nanoseconds

\* svc::Timeout::none
Timeout_none == Timeout_from_nanoseconds(Zero64)

\* svc::Timeout::forever: i64::max_value()
Timeout_forever == Timeout_from_nanoseconds(U64(32767, 65535, 65535, 65535))

\* svc::Timeout::reg_high and reg_low, each a 32-bit word
Timeout_reg_high(timeout) == <<timeout[1], timeout[2]>>

Timeout_reg_low(timeout) == <<timeout[3], timeout[4]>>

\* The tick counts and deadlines tried: around zero, around the 32-bit
\* boundary and around the sign bit of an i64.
TickInputs ==
    { Zero64, U64(0, 0, 0, 1), U64(0, 0, 0, 2), U64(0, 1, 0, 0),
      U64(32767, 65535, 65535, 65535), U64(32768, 0, 0, 0),
      U64(65535, 65535, 65535, 65535) }

TimeoutInputs == {Timeout_none, Timeout_forever, Timeout_from_nanoseconds(U64(0, 0, 0, 1))}

NoLockCall == [op |-> "none"]

\* svc::wait_synchronization as try_lock_for calls it: the timeout goes to
\* the kernel in two registers; acquired is what is_ok() made of the answer
wait_synchronization(timeout, acquired) ==
    [ns_high |-> Timeout_reg_high(timeout), ns_low |-> Timeout_reg_low(timeout),
     timeout |-> timeout, acquired |-> acquired]

\* OsMutex::try_lock_for
TryLockFor ==
    \E timeout \in TimeoutInputs, acquired \in BOOLEAN :
      /\ lock_call' = [op |-> "try_lock_for", panicked |-> FALSE,
                       wait |-> wait_synchronization(timeout, acquired)]
      /\ UNCHANGED overflow_checks

\* the timeout try_lock_until computes:
\* (deadline.count() - now.count()).max(0) as i64, on two u64 counts
TimeoutUntil(deadline, now) ==
    Timeout_from_nanoseconds(U64Max(U64WrappingSub(deadline, now), Zero64))

\* OsMutex::try_lock_until; now is what SystemTick::now() reads. The
\* subtraction of the two u64 counts traps in a build with overflow checks
\* and wraps in one without.
TryLockUntil ==
    \E deadline \in TickInputs, now \in TickInputs, acquired \in BOOLEAN :
      /\ lock_call' =
           IF overflow_checks /\ U64Less(deadline, now)
             THEN [op |-> "try_lock_until", deadline |-> deadline, now |-> now,
                   panicked |-> TRUE]
             ELSE [op |-> "try_lock_until", deadline |-> deadline, now |-> now,
                   panicked |-> FALSE,
                   wait |-> wait_synchronization(TimeoutUntil(deadline, now), acquired)]
      /\ UNCHANGED overflow_checks

LockIdle == overflow_checks = FALSE /\ lock_call = NoLockCall

InitLock == overflow_checks \in BOOLEAN /\ lock_call = NoLockCall

NextLock ==
    \/ TryLockFor /\ UNCHANGED nonLockVars
    \/ TryLockUntil /\ UNCHANGED nonLockVars

\* ------------------------------------------------------------------------
\* sync.rs: spin::StickyEvent over AddressArbiter
\*
\* The event is a spin::RwLock<State>. read() spins while a writer or an
\* upgradeable guard is held; upgradeable_read() spins while a writer or
\* another upgradeable guard is held; upgrade() spins until no reader is
\* left. A spin loop is a step that is not enabled until its condition holds.
\* The arbiter keeps the threads that wait on the address of the State.

NumEventThreads == 3

EventThreads == 1..NumEventThreads

\* enum State, repr(i32)
Cleared == 0

Signaled == 1

EventOps == {"signal", "clear", "wait", "try_wait"}

Unlocked == [readers |-> 0, upgraded |-> FALSE, writer |-> FALSE]

\* RwLock::read can take the lock
CanRead == ~rwlock.writer /\ ~rwlock.upgraded

\* RwLock::upgradeable_read can take the lock
CanUpgradeableRead == ~rwlock.writer /\ ~rwlock.upgraded

\* RwLockUpgradableGuard::upgrade can take the lock: waits for every reader
\* to be gone
CanUpgrade == rwlock.readers = 0

\* AddressArbiter::wait_if_less_than: the kernel parks the caller when the
\* value at the address is less than the value passed
WaitIfLessThan(at_address, value) == at_address < value

\* a thread calls signal, clear, wait or try_wait
EventCall(t, o) ==
    /\ ev_pc[t] = "idle"
    /\ ev_op' = [ev_op EXCEPT ![t] = o]
    /\ ev_ret' = [ev_ret EXCEPT ![t] = "none"]
    /\ ev_pc' = [ev_pc EXCEPT ![t] =
                   IF o \in {"signal", "clear"} THEN "upgradeable_read" ELSE "read"]
    /\ sticky' = (sticky /\ o # "clear")
    /\ UNCHANGED <<ev_state, rwlock>>

\* StickyEvent::signal: upgradeable_read() and the match on *lock
SignalLock(t) ==
    /\ ev_pc[t] = "upgradeable_read" /\ ev_op[t] = "signal"
    /\ CanUpgradeableRead
    /\ rwlock' = [rwlock EXCEPT !.upgraded = TRUE]
    /\ ev_pc' = [ev_pc EXCEPT ![t] =
                   IF ev_state = Signaled THEN "drop_upgradeable" ELSE "upgrade"]
    /\ UNCHANGED <<ev_state, ev_op, ev_ret, sticky>>

\* StickyEvent::signal, State::Cleared: lock.upgrade() and *state = Signaled
SignalUpgrade(t) ==
    /\ ev_pc[t] = "upgrade" /\ ev_op[t] = "signal"
    /\ CanUpgrade
    /\ rwlock' = [rwlock EXCEPT !.upgraded = FALSE, !.writer = TRUE]
    /\ ev_state' = Signaled
    /\ ev_pc' = [ev_pc EXCEPT ![t] = "wake_up_all"]
    /\ UNCHANGED <<ev_op, ev_ret, sticky>>

\* StickyEvent::signal: ARBITER.wake_up_all(state, ..)?, still under the
\* write guard. The kernel wakes every thread parked on the address.
SignalWake(t) ==
    /\ ev_pc[t] = "wake_up_all"
    /\ \E ok \in BOOLEAN :
         /\ ev_ret' = [ev_ret EXCEPT ![t] = IF ok THEN "ok" ELSE "err"]
         /\ ev_pc' = [u \in EventThreads |->
                        IF u = t THEN "drop_write"
                        ELSE IF ok /\ ev_pc[u] = "parked" THEN "drop_read"
                        ELSE ev_pc[u]]
    /\ UNCHANGED <<ev_state, rwlock, ev_op, sticky>>

\* StickyEvent::signal returns: the guard it holds is dropped
SignalReturn(t) ==
    /\ ev_op[t] = "signal"
    /\ \/ /\ ev_pc[t] = "drop_write"
          /\ rwlock' = [rwlock EXCEPT !.writer = FALSE]
          /\ ev_ret' = ev_ret
       \/ /\ ev_pc[t] = "drop_upgradeable"
          /\ rwlock' = [rwlock EXCEPT !.upgraded = FALSE]
          /\ ev_ret' = [ev_ret EXCEPT ![t] = "ok"]
    /\ ev_pc' = [ev_pc EXCEPT ![t] = "idle"]
    /\ sticky' = \/ sticky
                  \/ /\ ev_ret'[t] = "ok"
                     /\ \A u \in EventThreads : ev_op[u] = "clear" => ev_pc[u] = "idle"
    /\ UNCHANGED <<ev_state, ev_op>>

\* StickyEvent::clear: upgradeable_read() and the match on *lock
ClearLock(t) ==
    /\ ev_pc[t] = "upgradeable_read" /\ ev_op[t] = "clear"
    /\ CanUpgradeableRead
    /\ rwlock' = [rwlock EXCEPT !.upgraded = TRUE]
    /\ ev_pc' = [ev_pc EXCEPT ![t] =
                   IF ev_state = Cleared THEN "drop_upgradeable" ELSE "upgrade"]
    /\ UNCHANGED <<ev_state, ev_op, ev_ret, sticky>>

\* StickyEvent::clear, State::Signaled: *lock.upgrade() = State::Cleared;
\* the write guard is a temporary of that statement
ClearUpgrade(t) ==
    /\ ev_pc[t] = "upgrade" /\ ev_op[t] = "clear"
    /\ CanUpgrade
    /\ rwlock' = [rwlock EXCEPT !.upgraded = FALSE]
    /\ ev_state' = Cleared
    /\ ev_pc' = [ev_pc EXCEPT ![t] = "idle"]
    /\ ev_ret' = [ev_ret EXCEPT ![t] = "ok"]
    /\ UNCHANGED <<ev_op, sticky>>

\* StickyEvent::clear, State::Cleared: returns, dropping the upgradeable guard
ClearReturn(t) ==
    /\ ev_pc[t] = "drop_upgradeable" /\ ev_op[t] = "clear"
    /\ rwlock' = [rwlock EXCEPT !.upgraded = FALSE]
    /\ ev_pc' = [ev_pc EXCEPT ![t] = "idle"]
    /\ ev_ret' = [ev_ret EXCEPT ![t] = "ok"]
    /\ UNCHANGED <<ev_state, ev_op, sticky>>

\* StickyEvent::wait: let state = &*self.0.read(); the read guard lives to
\* the end of wait
WaitRead(t) ==
    /\ ev_pc[t] = "read" /\ ev_op[t] = "wait"
    /\ CanRead
    /\ rwlock' = [rwlock EXCEPT !.readers = @ + 1]
    /\ ev_pc' = [ev_pc EXCEPT ![t] =
                   IF ev_state = Cleared THEN "wait_if_less_than" ELSE "drop_read"]
    /\ UNCHANGED <<ev_state, ev_op, ev_ret, sticky>>

\* StickyEvent::wait, State::Cleared:
\* ARBITER.wait_if_less_than(state, State::Signaled).ok(): the kernel parks
\* the thread, or the syscall fails and the error is dropped
WaitArbitrate(t) ==
    /\ ev_pc[t] = "wait_if_less_than"
    /\ \E ok \in BOOLEAN :
         ev_pc' = [ev_pc EXCEPT ![t] =
                     IF ok /\ WaitIfLessThan(ev_state, Signaled) THEN "parked"
                     ELSE "drop_read"]
    /\ ev_ret' = [ev_ret EXCEPT ![t] = "entered"]
    /\ UNCHANGED <<ev_state, rwlock, ev_op, sticky>>

\* StickyEvent::wait returns, dropping the read guard
WaitReturn(t) ==
    /\ ev_pc[t] = "drop_read" /\ ev_op[t] = "wait"
    /\ rwlock' = [rwlock EXCEPT !.readers = @ - 1]
    /\ ev_pc' = [ev_pc EXCEPT ![t] = "idle"]
    /\ ev_ret' = [ev_ret EXCEPT ![t] = IF @ = "entered" THEN "woken" ELSE "ok"]
    /\ UNCHANGED <<ev_state, ev_op, sticky>>

\* StickyEvent::try_wait: read() and the match on *state
TryWaitRead(t) ==
    /\ ev_pc[t] = "read" /\ ev_op[t] = "try_wait"
    /\ CanRead
    /\ rwlock' = [rwlock EXCEPT !.readers = @ + 1]
    /\ ev_ret' = [ev_ret EXCEPT ![t] = IF ev_state = Cleared THEN "err" ELSE "ok"]
    /\ ev_pc' = [ev_pc EXCEPT ![t] = "drop_read"]
    /\ UNCHANGED <<ev_state, ev_op, sticky>>

\* StickyEvent::try_wait returns, dropping the read guard
TryWaitReturn(t) ==
    /\ ev_pc[t] = "drop_read" /\ ev_op[t] = "try_wait"
    /\ rwlock' = [rwlock EXCEPT !.readers = @ - 1]
    /\ ev_pc' = [ev_pc EXCEPT ![t] = "idle"]
    /\ UNCHANGED <<ev_state, ev_op, ev_ret, sticky>>

\* StickyEvent::new, no call made yet
EventIdle ==
    /\ ev_state = Cleared
    /\ rwlock = Unlocked
    /\ ev_pc = [t \in EventThreads |-> "idle"]
    /\ ev_op = [t \in EventThreads |-> "none"]
    /\ ev_ret = [t \in EventThreads |-> "none"]
    /\ sticky = FALSE

\* a step of a call that is under way
EventStep(t) ==
    /\ \/ SignalLock(t) \/ SignalUpgrade(t) \/ SignalWake(t) \/ SignalReturn(t)
       \/ ClearLock(t) \/ ClearUpgrade(t) \/ ClearReturn(t)
       \/ WaitRead(t) \/ WaitArbitrate(t) \/ WaitReturn(t)
       \/ TryWaitRead(t) \/ TryWaitReturn(t)
    /\ UNCHANGED nonEventVars

NextEvent ==
    \/ \E t \in EventThreads, o \in EventOps : EventCall(t, o) /\ UNCHANGED nonEventVars
    \/ \E t \in EventThreads : SignalLock(t) /\ UNCHANGED nonEventVars
    \/ \E t \in EventThreads : SignalUpgrade(t) /\ UNCHANGED nonEventVars
    \/ \E t \in EventThreads : SignalWake(t) /\ UNCHANGED nonEventVars
    \/ \E t \in EventThreads : SignalReturn(t) /\ UNCHANGED nonEventVars
    \/ \E t \in EventThreads : ClearLock(t) /\ UNCHANGED nonEventVars
    \/ \E t \in EventThreads : ClearUpgrade(t) /\ UNCHANGED nonEventVars
    \/ \E t \in EventThreads : ClearReturn(t) /\ UNCHANGED nonEventVars
    \/ \E t \in EventThreads : WaitRead(t) /\ UNCHANGED nonEventVars
    \/ \E t \in EventThreads : WaitArbitrate(t) /\ UNCHANGED nonEventVars
    \/ \E t \in EventThreads : WaitReturn(t) /\ UNCHANGED nonEventVars
    \/ \E t \in EventThreads : TryWaitRead(t) /\ UNCHANGED nonEventVars
    \/ \E t \in EventThreads : TryWaitReturn(t) /\ UNCHANGED nonEventVars

\* ------------------------------------------------------------------------
\* services/gsp/gpu.rs: the interrupt queue
\*
\* The GSP module queues events, pop_interrupt takes them out. An event in
\* the buffer is its byte value and, for the history, the number of the push
\* that wrote it (0: not written by a push).

\* the slots of the queue, 0x34
QueueSlots == 52

\* the events the GSP module queues at most
MaxPushes == 4

\* enum InterruptEvent: PSC0 = 0 .. DMA = 6
InterruptEvents == 0..6

\* From<u32> for InterruptHeader: the four little-endian bytes
InterruptHeader_from(header) ==
    [current_index |-> header[2] % 256, events_total |-> header[2] \div 256,
     error |-> header[1] % 256, unused |-> header[1] \div 256]

\* From<InterruptHeader> for u32
InterruptHeader_into(header) ==
    <<(header.unused * 256) + header.error,
      (header.events_total * 256) + header.current_index>>

\* InterruptInfo::read_event: the word after the three header words that
\* holds the event, and the byte of its to_le_bytes() taken
EventAddress(index) == <<3 + (index \div 4), 3 - (index % 4)>>

QueueAddresses == {EventAddress(i) : i \in 0..(QueueSlots - 1)}

\* InterruptEvent::from_value
InterruptEvent_from_value(value) == value \in InterruptEvents

\* the header pop_interrupt writes back
Acknowledged(header) ==
    [current_index |-> IF header.current_index >= QueueSlots THEN 0
                       ELSE header.current_index + 1,
     events_total |-> header.events_total - 1,
     error |-> 0, unused |-> header.unused]

NoEvent == [id |-> 0, value |-> 0]

NotPopped == [kind |-> "none yet", event |-> NoEvent, header |-> InterruptHeader_from(ZeroWord)]

\* the GSP module queues an event behind the ones that wait
Push(value) ==
    LET header == InterruptHeader_from(irq_header)
        slot == (header.current_index + header.events_total) % QueueSlots
    IN /\ pushed < MaxPushes
       /\ header.events_total < QueueSlots
       /\ event_buf' = [event_buf EXCEPT ![EventAddress(slot)] =
                          [id |-> pushed + 1, value |-> value]]
       /\ irq_header' = InterruptHeader_into([header EXCEPT !.events_total = @ + 1])
       /\ pushed' = pushed + 1
       /\ UNCHANGED <<pop_pc, pop_header, pop_event, pop_ret, read_at, popped>>

\* pop_interrupt: let mut header = info.load_header(Ordering::Acquire)
PopLoad ==
    /\ pop_pc = "idle"
    /\ pop_header' = InterruptHeader_from(irq_header)
    /\ pop_pc' = "read"
    /\ UNCHANGED <<irq_header, event_buf, pop_event, pop_ret, read_at, pushed, popped>>

\* pop_interrupt: the test of events_total and info.read_event(&header)?.
\* A byte outside the queue is not the queue's to define.
PopRead ==
    /\ pop_pc = "read"
    /\ IF pop_header.events_total = 0
         THEN /\ pop_ret' = [kind |-> "none", event |-> NoEvent, header |-> pop_header]
              /\ pop_pc' = "idle"
              /\ UNCHANGED <<pop_event, read_at>>
         ELSE \E outside \in {0, 255} :
                LET at == EventAddress(pop_header.current_index)
                    event == IF at \in QueueAddresses THEN event_buf[at]
                             ELSE [id |-> 0, value |-> outside]
                IN /\ read_at' = read_at \cup {pop_header.current_index}
                   /\ IF InterruptEvent_from_value(event.value)
                        THEN /\ pop_event' = event
                             /\ pop_pc' = "store"
                             /\ UNCHANGED pop_ret
                        ELSE /\ pop_ret' = [kind |-> "none", event |-> NoEvent,
                                            header |-> pop_header]
                             /\ pop_pc' = "idle"
                             /\ UNCHANGED pop_event
    /\ UNCHANGED <<irq_header, event_buf, pop_header, pushed, popped>>

\* pop_interrupt: info.store_header(header, acknowledged, AcqRel, Acquire),
\* a compare_exchange on the header word
PopStore ==
    /\ pop_pc = "store"
    /\ IF irq_header = InterruptHeader_into(pop_header)
         THEN /\ irq_header' = InterruptHeader_into(Acknowledged(pop_header))
              /\ pop_ret' = [kind |-> "some", event |-> pop_event, header |-> pop_header]
              /\ popped' = Append(popped, pop_event.id)
              /\ pop_pc' = "idle"
              /\ UNCHANGED pop_header
         ELSE /\ pop_header' = InterruptHeader_from(irq_header)
              /\ pop_pc' = "read"
              /\ UNCHANGED <<irq_header, pop_ret, popped>>
    /\ UNCHANGED <<event_buf, pop_event, read_at, pushed>>

\* the indices the queue is at when the process attaches to it
StartIndices == {0, QueueSlots - 2, QueueSlots - 1}

QueueAt(start) ==
    /\ irq_header = InterruptHeader_into([current_index |-> start, events_total |-> 0,
                                          error |-> 0, unused |-> 0])
    /\ event_buf = [a \in QueueAddresses |-> NoEvent]
    /\ pop_pc = "idle"
    /\ pop_header = InterruptHeader_from(ZeroWord)
    /\ pop_event = NoEvent
    /\ pop_ret = NotPopped
    /\ read_at = {}
    /\ pushed = 0
    /\ popped = <<>>

IrqIdle == QueueAt(0)

InitIrq == \E start \in StartIndices : QueueAt(start)

NextIrq ==
    \/ \E value \in {2, 6} : Push(value) /\ UNCHANGED nonIrqVars
    \/ PopLoad /\ UNCHANGED nonIrqVars
    \/ PopRead /\ UNCHANGED nonIrqVars
    \/ PopStore /\ UNCHANGED nonIrqVars

\* ------------------------------------------------------------------------
\* services/gsp/gpu.rs: FramebufferInfo
\*
\* The process writes a descriptor into one of two slots and flags the
\* header; the GSP module takes the flag down when it has read the slot.

\* the update calls made at most
MaxUpdates == 2

\* enum FramebufferIndex, cast to u8
First == 0

Second == 1

\* FramebufferIndex::swap
FramebufferIndex_swap(index) == IF index = First THEN Second ELSE First

\* FramebufferInfoHeader::update_index: byte 0 is the index, byte 1 is set
\* to 1, bytes 2 and 3 stay
FramebufferInfoHeader_update_index(header, index) ==
    <<header[1], 256 + index>>

\* header.load(order).to_le_bytes()[0]
HeaderIndexByte(header) == header[2] % 256

\* to_le_bytes()[1], the update flag
HeaderUpdateByte(header) == header[2] \div 256

NoDescriptor == [id |-> 0, active_framebuffer |-> First, complete |-> TRUE]

NoUpdate == [id |-> 0, active_fb |-> First]

\* FramebufferInfo::update is called
Update(active_fb) ==
    /\ fb_pc = "idle"
    /\ fb_updates < MaxUpdates
    /\ fb_updates' = fb_updates + 1
    /\ fb_call' = [id |-> fb_updates + 1, active_fb |-> active_fb]
    /\ fb_pc' = "load_index"
    /\ UNCHANGED <<fb_header, fb_slots, fb_next, fb_current>>

\* let next_index = self.load_index(Ordering::Acquire).swap()
UpdateLoadIndex ==
    /\ fb_pc = "load_index"
    /\ IF HeaderIndexByte(fb_header) \in {First, Second}
         THEN /\ fb_next' = FramebufferIndex_swap(HeaderIndexByte(fb_header))
              /\ fb_pc' = "write"
         ELSE /\ fb_pc' = "panicked"
              /\ UNCHANGED fb_next
    /\ UNCHANGED <<fb_header, fb_slots, fb_call, fb_current, fb_updates>>

\* self.info_at(next_index).write(fb_info): the first words of the slot
UpdateWrite ==
    /\ fb_pc = "write"
    /\ fb_slots' = [fb_slots EXCEPT ![fb_next] =
                      [id |-> fb_call.id, active_framebuffer |-> fb_call.active_fb,
                       complete |-> FALSE]]
    /\ fb_pc' = "write_rest"
    /\ UNCHANGED <<fb_header, fb_call, fb_next, fb_current, fb_updates>>

\* the last words of the slot, and fence(Ordering::Release)
UpdateWriteRest ==
    /\ fb_pc = "write_rest"
    /\ fb_slots' = [fb_slots EXCEPT ![fb_next].complete = TRUE]
    /\ fb_pc' = "load"
    /\ UNCHANGED <<fb_header, fb_call, fb_next, fb_current, fb_updates>>

\* trigger_update: let mut current = header.load(Ordering::Acquire)
TriggerLoad ==
    /\ fb_pc = "load"
    /\ fb_current' = fb_header
    /\ fb_pc' = "cas"
    /\ UNCHANGED <<fb_header, fb_slots, fb_call, fb_next, fb_updates>>

\* trigger_update: header.compare_exchange_weak(current, updated, ..), which
\* may fail although the header is `current`
TriggerCas ==
    /\ fb_pc = "cas"
    /\ \E spurious \in BOOLEAN :
         IF fb_header = fb_current /\ ~spurious
           THEN /\ fb_header' = FramebufferInfoHeader_update_index(fb_current,
                                                                   fb_call.active_fb)
                /\ fb_pc' = "idle"
                /\ UNCHANGED fb_current
           ELSE /\ fb_current' = fb_header
                /\ UNCHANGED <<fb_header, fb_pc>>
    /\ UNCHANGED <<fb_slots, fb_call, fb_next, fb_updates>>

\* the GSP module has taken the flagged descriptor: the flag goes down
GspTakesUpdate ==
    /\ HeaderUpdateByte(fb_header) = 1
    /\ fb_header' = <<fb_header[1], HeaderIndexByte(fb_header)>>
    /\ UNCHANGED <<fb_slots, fb_pc, fb_call, fb_next, fb_current, fb_updates>>

\* the headers an update can find: either index, flag up or down, the upper
\* bytes zero or not
FbHeaders == {<<upper, (flag * 256) + index>> :
                upper \in {0, 43981}, flag \in {0, 1}, index \in {First, Second}}

FbAt(header) ==
    /\ fb_header = header
    /\ fb_slots = [i \in {First, Second} |-> NoDescriptor]
    /\ fb_pc = "idle"
    /\ fb_call = NoUpdate
    /\ fb_next = First
    /\ fb_current = ZeroWord
    /\ fb_updates = 0

FbIdle == FbAt(ZeroWord)

InitFb == \E header \in FbHeaders : FbAt(header)

NextFb ==
    \/ \E active_fb \in {First, Second} : Update(active_fb) /\ UNCHANGED nonFbVars
    \/ UpdateLoadIndex /\ UNCHANGED nonFbVars
    \/ UpdateWrite /\ UNCHANGED nonFbVars
    \/ UpdateWriteRest /\ UNCHANGED nonFbVars
    \/ TriggerLoad /\ UNCHANGED nonFbVars
    \/ TriggerCas /\ UNCHANGED nonFbVars
    \/ GspTakesUpdate /\ UNCHANGED nonFbVars

\* ------------------------------------------------------------------------
\* services/hid/mod.rs: Hid::init, os.rs: Handle
\*
\* A Handle is an Option<NonZeroU32>: the raw word, 0 being None. The kernel
\* hands out handles nobody holds; they are numbered as they are handed out.

\* the init calls made at most
MaxInits == 3

\* the words a reply to command 0xa carries: the memory handle and five more
ReplyHandles == 6

HidHandles == 1..(MaxInits * (ReplyHandles + 1))

\* Handle::new: NonZeroU32::new(raw_handle)
Handle_new(word) == word

\* a drop that forgets the handle, as core::mem::forget does
Handle_forget(closes, handle) == closes

\* Drop for Handle, through Handle::close: a handle that is Some is taken
\* and closed by svc::close_handle, None is left alone
Handle_drop(closes, handle) ==
    IF handle # 0 THEN [closes EXCEPT ![handle] = @ + 1] ELSE closes

\* the locals of a scope go in reverse order of declaration
RECURSIVE DropAll(_, _)
DropAll(closes, handles) ==
    IF handles = <<>> THEN closes
    ELSE DropAll(Handle_drop(closes, handles[Len(handles)]), SubSeq(handles, 1, Len(handles) - 1))

NoReturn == [kind |-> "none", err |-> "none"]

NoneGot == [service_handle |-> 0, memory_handle |-> 0, handles |-> <<>>]

\* the ways get_service_handle goes for the two names
ServiceOutcomes == {"hid:USER", "hid:SPVR", "neither"}

\* the ways SharedMemoryMapper::map goes: mapped, no address found, or the
\* map_memory_block call refused
MapOutcomes == {"mapped", "OutOfResource", "map_memory_block"}

\* Hid::init is called
Init_call ==
    /\ hid_pc = "idle"
    /\ hid_inits < MaxInits
    /\ hid_inits' = hid_inits + 1
    /\ hid_pc' = "srv"
    /\ hid_ret' = NoReturn
    /\ hid_got' = NoneGot
    /\ UNCHANGED <<hid_service, hid_reply, hid_locals, hid_obj, hid_closes, hid_fresh>>

\* srv.get_service_handle("hid:USER").or_else(.. "hid:SPVR")?
GetServiceHandle ==
    /\ hid_pc = "srv"
    /\ \E result \in ServiceOutcomes :
         IF result = "neither"
         THEN /\ hid_pc' = "idle"
              /\ hid_ret' = [kind |-> "err", err |-> "get_service_handle"]
              /\ UNCHANGED <<hid_service, hid_fresh, hid_got>>
         ELSE /\ hid_service' = Handle_new(hid_fresh)
              /\ hid_fresh' = hid_fresh + 1
              /\ hid_got' = [hid_got EXCEPT !.service_handle = hid_fresh]
              /\ hid_pc' = "dispatch"
              /\ UNCHANGED hid_ret
    /\ UNCHANGED <<hid_reply, hid_locals, hid_obj, hid_closes, hid_inits>>

\* IpcRequest::command(0xa).dispatch(service_handle.handle())?: the reply
\* carries six handles of this process, or the call fails and
\* service_handle goes out of scope
DispatchInit ==
    /\ hid_pc = "dispatch"
    /\ \E ok \in BOOLEAN :
         IF ok
         THEN /\ hid_reply' = [i \in 1..ReplyHandles |-> hid_fresh + (i - 1)]
              /\ hid_fresh' = hid_fresh + ReplyHandles
              /\ hid_pc' = "read"
              /\ UNCHANGED <<hid_service, hid_closes, hid_ret>>
         ELSE /\ hid_closes' = Handle_drop(hid_closes, hid_service)
              /\ hid_service' = 0
              /\ hid_pc' = "idle"
              /\ hid_ret' = [kind |-> "err", err |-> "dispatch"]
              /\ UNCHANGED <<hid_reply, hid_fresh>>
    /\ UNCHANGED <<hid_locals, hid_obj, hid_got, hid_inits>>

\* let [memory_handle, pad0, pad1, accelerometer, gyroscope, debugpad]:
\* [Handle; 6] = reply.finish_results().read_translate_result()
ReadTranslateResult ==
    /\ hid_pc = "read"
    /\ hid_locals' = [i \in 1..ReplyHandles |-> Handle_new(hid_reply[i])]
    /\ hid_got' = [hid_got EXCEPT !.memory_handle = hid_reply[1],
                                  !.handles = SubSeq(hid_reply, 2, ReplyHandles)]
    /\ hid_reply' = <<>>
    /\ hid_pc' = "map"
    /\ UNCHANGED <<hid_service, hid_obj, hid_ret, hid_closes, hid_fresh, hid_inits>>

\* SharedMemory::new(memory_handle)?: memory_handle moves into map, which
\* keeps it in the MappedBlock or drops it on its way out with an error;
\* on the error init leaves too, and its locals go, last declared first,
\* service_handle at the end. Otherwise all of them move into the Hid.
MapSharedMemory ==
    /\ hid_pc = "map"
    /\ \E result \in MapOutcomes :
         IF result = "mapped"
         THEN /\ hid_obj' = hid_obj \cup
                    {[service_handle |-> hid_service,
                      sharedmem |-> hid_locals[1],
                      handles |-> SubSeq(hid_locals, 2, ReplyHandles)]}
              /\ hid_ret' = [kind |-> "ok", err |-> "none"]
              /\ UNCHANGED hid_closes
         ELSE /\ hid_closes' =
                    Handle_drop(
                        DropAll(Handle_drop(hid_closes, hid_locals[1]),
                                SubSeq(hid_locals, 2, ReplyHandles)),
                        hid_service)
              /\ hid_ret' = [kind |-> "err", err |-> result]
              /\ UNCHANGED hid_obj
    /\ hid_service' = 0
    /\ hid_locals' = <<>>
    /\ hid_pc' = "idle"
    /\ UNCHANGED <<hid_reply, hid_got, hid_fresh, hid_inits>>

\* A Hid goes out of scope: its fields are dropped as declared. Drop for
\* SharedMemory unmaps the block and drops the handle unmap gives back; if
\* unmap fails the block went into it and its handle is dropped there.
DropHid(hid) ==
    /\ hid_pc = "idle"
    /\ hid \in hid_obj
    /\ hid_closes' =
           LET closed == Handle_drop(hid_closes, hid.service_handle)
               unmapped == Handle_drop(closed, hid.sharedmem)
               Rev(handles) == [i \in 1..Len(handles) |-> handles[Len(handles) + 1 - i]]
           IN  DropAll(unmapped, Rev(hid.handles))
    /\ hid_obj' = hid_obj \ {hid}
    /\ UNCHANGED <<hid_pc, hid_service, hid_reply, hid_locals, hid_ret, hid_got, hid_fresh,
                   hid_inits>>

HidIdle ==
    /\ hid_pc = "idle"
    /\ hid_service = 0
    /\ hid_reply = <<>>
    /\ hid_locals = <<>>
    /\ hid_obj = {}
    /\ hid_ret = NoReturn
    /\ hid_got = NoneGot
    /\ hid_closes = [h \in HidHandles |-> 0]
    /\ hid_fresh = 1
    /\ hid_inits = 0

InitHid == HidIdle

NextHid ==
    /\ \/ Init_call
       \/ GetServiceHandle
       \/ DispatchInit
       \/ ReadTranslateResult
       \/ MapSharedMemory
       \/ \E hid \in hid_obj : DropHid(hid)
    /\ UNCHANGED nonHidVars

\* ------------------------------------------------------------------------
\* services/soc.rs: Soc, heap.rs: PageAlignedBuffer
\*
\* A PageAlignedBuffer is the allocation it points to (0: None) and the size
\* of its layout, in pages.

\* the buffers allocated at most, and with them the Soc objects made
MaxSocs == 2

\* the gethostid calls made on one Soc at most
MaxSocCalls == 1

\* command ids
InitializeSockets == 1

GetHostId == 22

ShutdownSockets == 25

\* PageAlignedBuffer::null
PageAlignedBuffer_null == [buffer |-> 0, size |-> 0]

\* Drop for PageAlignedBuffer: deallocate if the pointer is Some
PageAlignedBuffer_drop(freed, page_buffer) ==
    IF page_buffer.buffer # 0 THEN [freed EXCEPT ![page_buffer.buffer] = @ + 1] ELSE freed

NoSoc == [open |-> {}, buffer |-> PageAlignedBuffer_null]

NoBuffer == [kind |-> "none", buffer |-> PageAlignedBuffer_null]

\* Soc::shutdown: command 0x19 is dispatched on the service handle
Soc_shutdown(sent, reply_ok) == Append(sent, [id |-> ShutdownSockets, ok |-> reply_ok])

\* Drop for Soc sends the shutdown and ignores the result; then the fields
\* go: handle, buffer, buffer_handle
Soc_drop(reply_ok) ==
    /\ soc_sent' = Soc_shutdown(soc_sent, reply_ok)
    /\ soc_freed' = PageAlignedBuffer_drop(soc_freed, soc_obj.buffer)
    /\ soc_obj' = NoSoc

\* Soc::reclaim: shutdown()?, then the buffer is taken out of self, which
\* leaves PageAlignedBuffer::default() behind, and self is dropped. When
\* shutdown fails, self is dropped on the way out with its buffer in it.
Soc_reclaim(reply_ok, drop_ok) ==
    /\ soc_state = "live"
    /\ LET sent == Soc_shutdown(soc_sent, reply_ok)
           taken == IF reply_ok THEN soc_obj.buffer ELSE PageAlignedBuffer_null
           left == IF reply_ok THEN PageAlignedBuffer_null ELSE soc_obj.buffer
       IN  /\ soc_sent' = Soc_shutdown(sent, drop_ok)
           /\ soc_freed' = PageAlignedBuffer_drop(soc_freed, left)
           /\ soc_obj' = NoSoc
           /\ soc_ret' = [kind |-> IF reply_ok THEN "ok" ELSE "err", buffer |-> taken]
           /\ soc_state' = IF reply_ok THEN "reclaimed" ELSE "reclaim_failed"
    /\ UNCHANGED <<soc_given, soc_made, soc_calls>>

\* the ways Soc::init goes
InitOutcomes == {"create_memory_block", "get_service_handle", "dispatch", "initialized"}

\* Soc::init with the buffer it is given; every `?` drops what is owned by
\* then, the buffer among it
Soc_init(page_buffer, result) ==
    /\ soc_state # "live"
    /\ soc_given' = page_buffer
    /\ soc_sent' = IF result \in {"dispatch", "initialized"}
                   THEN <<[id |-> InitializeSockets, ok |-> result = "initialized"]>>
                   ELSE <<>>
    /\ soc_calls' = 0
    /\ IF result = "initialized"
       THEN /\ soc_obj' = [open |-> {"handle", "buffer_handle"}, buffer |-> page_buffer]
            /\ soc_state' = "live"
            /\ UNCHANGED soc_freed
       ELSE /\ soc_obj' = NoSoc
            /\ soc_state' = "init_failed"
            /\ soc_freed' = PageAlignedBuffer_drop(soc_freed, page_buffer)

\* PageAlignedBuffer::allocate, and init with the new buffer
InitWithNewBuffer ==
    /\ soc_made < MaxSocs
    /\ soc_made' = soc_made + 1
    /\ \E pages \in 1..2, result \in InitOutcomes :
         Soc_init([buffer |-> soc_made + 1, size |-> pages], result)
    /\ soc_ret' = IF soc_ret.kind = "ok" THEN soc_ret ELSE NoBuffer

\* init with the buffer that reclaim gave back
InitWithReclaimedBuffer ==
    /\ soc_ret.kind = "ok"
    /\ \E result \in InitOutcomes : Soc_init(soc_ret.buffer, result)
    /\ soc_ret' = NoBuffer
    /\ UNCHANGED soc_made

\* Soc::gethostid
Soc_gethostid ==
    /\ soc_state = "live"
    /\ soc_calls < MaxSocCalls
    /\ soc_calls' = soc_calls + 1
    /\ \E reply_ok \in BOOLEAN : soc_sent' = Append(soc_sent, [id |-> GetHostId, ok |-> reply_ok])
    /\ UNCHANGED <<soc_state, soc_obj, soc_given, soc_ret, soc_freed, soc_made>>

\* the Soc goes out of scope
DropSoc ==
    /\ soc_state = "live"
    /\ \E reply_ok \in BOOLEAN : Soc_drop(reply_ok)
    /\ soc_state' = "dropped"
    /\ UNCHANGED <<soc_given, soc_ret, soc_made, soc_calls>>

\* the buffer that reclaim gave back goes out of scope
DropReclaimedBuffer ==
    /\ soc_ret.kind = "ok"
    /\ soc_state # "live"
    /\ soc_freed' = PageAlignedBuffer_drop(soc_freed, soc_ret.buffer)
    /\ soc_ret' = NoBuffer
    /\ UNCHANGED <<soc_state, soc_obj, soc_given, soc_sent, soc_made, soc_calls>>

SocIdle ==
    /\ soc_state = "none"
    /\ soc_obj = NoSoc
    /\ soc_given = PageAlignedBuffer_null
    /\ soc_sent = <<>>
    /\ soc_ret = NoBuffer
    /\ soc_freed = [b \in 1..MaxSocs |-> 0]
    /\ soc_made = 0
    /\ soc_calls = 0

InitSoc == SocIdle

NextSoc ==
    /\ \/ InitWithNewBuffer
       \/ InitWithReclaimedBuffer
       \/ Soc_gethostid
       \/ \E reply_ok, drop_ok \in BOOLEAN : Soc_reclaim(reply_ok, drop_ok)
       \/ DropSoc
       \/ DropReclaimedBuffer
    /\ UNCHANGED nonSocVars

\* ------------------------------------------------------------------------
\* The specifications: one subsystem runs, the others stay idle

InitSpecSync == InitSync /\ OwnIdle /\ ReqIdle /\ ReplyIdle /\ ShmIdle /\ SvcIdle /\ ThrIdle /\ CodecIdle /\ RcIdle /\ LockIdle /\ EventIdle /\ IrqIdle /\ FbIdle /\ HidIdle /\ SocIdle
SpecSync == InitSpecSync /\ [][NextSync]_vars
SpecSyncDrop == InitSpecSync /\ [][NextSyncDrop]_vars

InitSpecOwn == InitOwn /\ InitSync /\ ReqIdle /\ ReplyIdle /\ ShmIdle /\ SvcIdle /\ ThrIdle /\ CodecIdle /\ RcIdle /\ LockIdle /\ EventIdle /\ IrqIdle /\ FbIdle /\ HidIdle /\ SocIdle
SpecOwn == InitSpecOwn /\ [][NextOwn]_vars

InitSpecReq == ReqIdle /\ InitSync /\ OwnIdle /\ ReplyIdle /\ ShmIdle /\ SvcIdle /\ ThrIdle /\ CodecIdle /\ RcIdle /\ LockIdle /\ EventIdle /\ IrqIdle /\ FbIdle /\ HidIdle /\ SocIdle
SpecReq == InitSpecReq /\ [][NextReq]_vars

InitSpecReply == InitReply /\ InitSync /\ OwnIdle /\ ReqIdle /\ ShmIdle /\ SvcIdle /\ ThrIdle /\ CodecIdle /\ RcIdle /\ LockIdle /\ EventIdle /\ IrqIdle /\ FbIdle /\ HidIdle /\ SocIdle
SpecReply == InitSpecReply /\ [][NextReply]_vars

InitSpecShm == InitShm /\ InitSync /\ OwnIdle /\ ReqIdle /\ ReplyIdle /\ SvcIdle /\ ThrIdle /\ CodecIdle /\ RcIdle /\ LockIdle /\ EventIdle /\ IrqIdle /\ FbIdle /\ HidIdle /\ SocIdle
SpecShm == InitSpecShm /\ [][NextShm]_vars

InitSpecGap == InitGap /\ InitSync /\ OwnIdle /\ ReqIdle /\ ReplyIdle /\ SvcIdle /\ ThrIdle /\ CodecIdle /\ RcIdle /\ LockIdle /\ EventIdle /\ IrqIdle /\ FbIdle /\ HidIdle /\ SocIdle
SpecGap == InitSpecGap /\ [][NextGap]_vars

InitSpecSvcIn == InitSvcIn /\ InitSync /\ OwnIdle /\ ReqIdle /\ ReplyIdle /\ ShmIdle /\ ThrIdle /\ CodecIdle /\ RcIdle /\ LockIdle /\ EventIdle /\ IrqIdle /\ FbIdle /\ HidIdle /\ SocIdle
SpecSvcIn == InitSpecSvcIn /\ [][NextSvcIn]_vars

InitSpecSvcOut == InitSvcOut /\ InitSync /\ OwnIdle /\ ReqIdle /\ ReplyIdle /\ ShmIdle /\ ThrIdle /\ CodecIdle /\ RcIdle /\ LockIdle /\ EventIdle /\ IrqIdle /\ FbIdle /\ HidIdle /\ SocIdle
SpecSvcOut == InitSpecSvcOut /\ [][NextSvcOut]_vars

InitSpecThr == ThrIdle /\ InitSync /\ OwnIdle /\ ReqIdle /\ ReplyIdle /\ ShmIdle /\ SvcIdle /\ CodecIdle /\ RcIdle /\ LockIdle /\ EventIdle /\ IrqIdle /\ FbIdle /\ HidIdle /\ SocIdle
SpecThr == InitSpecThr /\ [][NextThr]_vars

InitSpecCodec ==
    InitCodec /\ InitSync /\ OwnIdle /\ ReqIdle /\ ReplyIdle /\ ShmIdle /\ SvcIdle /\ ThrIdle /\ RcIdle /\ LockIdle /\ EventIdle /\ IrqIdle /\ FbIdle /\ HidIdle /\ SocIdle
SpecCodec == InitSpecCodec /\ [][NextCodec]_vars

InitSpecRc ==
    InitRc /\ InitSync /\ OwnIdle /\ ReqIdle /\ ReplyIdle /\ ShmIdle /\ SvcIdle /\ ThrIdle /\ LockIdle /\ EventIdle /\ IrqIdle /\ FbIdle /\ HidIdle /\ SocIdle
      /\ CodecIdle
SpecRc == InitSpecRc /\ [][NextRc]_vars

InitSpecLock ==
    InitLock /\ InitSync /\ OwnIdle /\ ReqIdle /\ ReplyIdle /\ ShmIdle /\ SvcIdle /\ ThrIdle /\ EventIdle /\ IrqIdle /\ FbIdle /\ HidIdle /\ SocIdle
      /\ CodecIdle /\ RcIdle
SpecLock == InitSpecLock /\ [][NextLock]_vars

InitSpecEvent ==
    EventIdle /\ InitSync /\ OwnIdle /\ ReqIdle /\ ReplyIdle /\ ShmIdle /\ SvcIdle /\ ThrIdle /\ IrqIdle /\ FbIdle /\ HidIdle /\ SocIdle
      /\ CodecIdle /\ RcIdle /\ LockIdle
SpecEvent == InitSpecEvent /\ [][NextEvent]_vars

InitSpecIrq ==
    InitIrq /\ InitSync /\ OwnIdle /\ ReqIdle /\ ReplyIdle /\ ShmIdle /\ SvcIdle /\ ThrIdle /\ FbIdle /\ HidIdle /\ SocIdle
      /\ CodecIdle /\ RcIdle /\ LockIdle /\ EventIdle
SpecIrq == InitSpecIrq /\ [][NextIrq]_vars

InitSpecFb ==
    InitFb /\ InitSync /\ OwnIdle /\ ReqIdle /\ ReplyIdle /\ ShmIdle /\ SvcIdle /\ ThrIdle /\ HidIdle /\ SocIdle
      /\ CodecIdle /\ RcIdle /\ LockIdle /\ EventIdle /\ IrqIdle
SpecFb == InitSpecFb /\ [][NextFb]_vars

InitSpecHid ==
    InitHid /\ InitSync /\ OwnIdle /\ ReqIdle /\ ReplyIdle /\ ShmIdle /\ SvcIdle /\ ThrIdle /\ SocIdle
      /\ CodecIdle /\ RcIdle /\ LockIdle /\ EventIdle /\ IrqIdle /\ FbIdle
SpecHid == InitSpecHid /\ [][NextHid]_vars

InitSpecSoc ==
    InitSoc /\ InitSync /\ OwnIdle /\ ReqIdle /\ ReplyIdle /\ ShmIdle /\ SvcIdle /\ ThrIdle
      /\ CodecIdle /\ RcIdle /\ LockIdle /\ EventIdle /\ IrqIdle /\ FbIdle /\ HidIdle
SpecSoc == InitSpecSoc /\ [][NextSoc]_vars

\* Every thread that is inside a call keeps running: a spin loop that can
\* leave does leave, a syscall that can return does return. Calls themselves
\* are made or not as the program pleases.
SpecEventFair == SpecEvent /\ \A t \in EventThreads : WF_vars(EventStep(t))

\* ------------------------------------------------------------------------
\* Properties of the handle cell and the mutex (SpecSync)

\* the handles the constructor has created so far
created == 1..(next_handle - 1)

\* no get_or_init call is in progress
GetOrInitQuiescent == \A t \in Threads : pc[t] \notin {"load", "init", "cas", "close"}

\* C1: once every get_or_init call on the initially closed cell has
\* returned, exactly one of the handles the constructor created is still
\* open, it is the value stored in the cell, and every other created handle
\* has been passed to close-handle exactly once.
C1_OneSurvivor ==
    (GetOrInitQuiescent /\ created # {}) =>
        /\ created \cap khandles = {cell}
        /\ closeCalls[cell] = 0
        /\ \A h \in created \ {cell} : closeCalls[h] = 1

\* a first-use race with a loser has run to completion
C1_Witness == GetOrInitQuiescent /\ Cardinality(created) >= 2

\* C2: every get_or_init call returns the non-zero handle stored in the
\* cell, and never the closed sentinel.
C2_AllReturnWinner == \A v \in returned : v # CLOSED_HANDLE /\ v = cell

\* C9: every wait/release syscall of the mutex is issued on the one kernel
\* mutex stored in the cell, and at most one thread at a time is between a
\* successful lock and its unlock.
C9_OneMutexObject ==
    /\ \A h \in sysHandles : h # CLOSED_HANDLE /\ h = cell
    /\ Cardinality({t \in Threads : held[t]}) <= 1

\* C10: when a thread that locked the mutex returns from unlock, the kernel
\* mutex is free again.
C10_UnlockFrees ==
    [][\A t \in Threads :
          (held[t] /\ ~held'[t] /\ pc'[t] = "idle") =>
              (cell' \in khandles' /\ kmutex'[cell'].owner = NoThread)]_vars

\* ------------------------------------------------------------------------
\* Properties of the owning handles (SpecOwn)

\* every wrapper that was made has been dropped or leaked
AllGone == \A w \in WrapperIds : wrappers[w].st # "live"

\* C3: for a wrapper made from a non-zero raw value, under any sequence of
\* close(), take(), leak() and destruction: close-handle is never issued
\* twice for the value; a close() on a wrapper that holds no value returns
\* Ok without a syscall and one that holds the value issues the syscall;
\* a leaked value is handed out unclosed; and once every wrapper is gone the
\* syscall was issued exactly once unless the value was leaked.
C3_CloseOnce ==
    raw # CLOSED_HANDLE =>
        /\ ownCloses[raw] <= 1
        /\ lastClose.called =>
             IF lastClose.had THEN lastClose.syscall
                              ELSE ~lastClose.syscall /\ lastClose.ok
        /\ raw \in leakedOut => ownCloses[raw] = 0
        /\ AllGone => (ownCloses[raw] = 1 <=> raw \notin leakedOut)

\* the value was moved by take(), closed once, and a later close() found
\* the wrapper empty; every wrapper is gone
C3_Witness ==
    /\ raw # CLOSED_HANDLE /\ AllGone
    /\ ownCloses[raw] = 1
    /\ wrappers[2].st = "dropped"
    /\ lastClose.called /\ ~lastClose.had

\* ------------------------------------------------------------------------
\* Properties of the request writer (SpecReq)

\* C4: the k-th word passed to write() after the header slot is stored at
\* word k when k <= 0x7F; the write that finds the cursor at word 0x80
\* panics and stores nothing; no word outside the window is ever written.
C4_WindowWrites ==
    /\ \A p \in DOMAIN writer.mem : 0 <= p /\ p < COMMAND_BUFFER_LENGTH
    /\ \A k \in 1..Len(argWords) :
          IF k < COMMAND_BUFFER_LENGTH
            THEN k \in DOMAIN writer.mem /\ writer.mem[k] = argWords[k]
            ELSE k \notin DOMAIN writer.mem
    /\ (req_pc = "panicked") <=> (Len(argWords) >= COMMAND_BUFFER_LENGTH)
    /\ req_pc \in {"Normal", "Translate", "sent"} => writer.end_ptr = Len(argWords) + 1

\* word 0x7F was written and the write after it aborted
C4_Witness ==
    /\ req_pc = "panicked"
    /\ (COMMAND_BUFFER_LENGTH - 1) \in DOMAIN writer.mem
    /\ Len(argWords) = COMMAND_BUFFER_LENGTH

\* C8: when a request reaches the synchronous-request syscall, word 0 holds
\* a header with the request's command id, with the number of normal words
\* written and the number of translate words written, and the words occupy
\* exactly positions 1 .. normal+translate.
C8_TrueHeader ==
    req_pc = "sent" =>
        /\ IpcHeader_command_id(writer.mem[0]) = req_id
        /\ IpcHeader_normal_param_words(writer.mem[0]) = normalArgs
        /\ IpcHeader_translate_param_words(writer.mem[0]) = translateArgs
        /\ DOMAIN writer.mem = 0..(normalArgs + translateArgs)

\* ------------------------------------------------------------------------
\* Properties of reply parsing (SpecReply)

\* a call that sends a request has returned or aborted after the kernel
\* delivered a reply
Received(apis) ==
    /\ reply_pc \in {"done", "panicked"}
    /\ lastCall.op = "dispatch" /\ lastCall.api \in apis
    /\ lastCall.sent

\* the words the reply header declares: the header, the normal words and
\* the translate words
Declared == 0..(reply.n + reply.m)

\* C5: when the result code embedded in the reply is non-zero, the request
\* returns that error having used no reply word but the header and the
\* result code: no further normal word is read, no translate word is read,
\* none is turned into a handle.
C5_ErrorShortCircuits ==
    (Received({"parse", "request", "gpu"}) /\ reply.n >= 1 /\ is_err(reply.rc)) =>
        /\ outcome.kind \in {"err", "init_hardware"}
        /\ outcome.code = reply.rc
        /\ readPos \subseteq {0, 1}
        /\ exposed = {}
        /\ handlesMade = {}

C7_DeclaredWordsOnly ==
    /\ \A p \in readPos \cup exposed : 0 <= p /\ p < COMMAND_BUFFER_LENGTH
    /\ lastCall.op = "read" =>
         IF 0 <= lastCall.at /\ lastCall.at < COMMAND_BUFFER_LENGTH
           THEN reply_pc = "raw" /\ readPos = {lastCall.at}
           ELSE reply_pc = "panicked" /\ readPos = {}
    /\ lastCall.op = "read_range" =>
         IF lastCall.at < COMMAND_BUFFER_LENGTH
              /\ 0 <= lastCall.at + lastCall.len - 1
              /\ lastCall.at + lastCall.len - 1 < COMMAND_BUFFER_LENGTH
           THEN reply_pc = "raw"
                  /\ exposed = lastCall.at..(lastCall.at + lastCall.len - 1)
           ELSE reply_pc = "panicked" /\ exposed = {}
    /\ Received({"parse", "parse_nofail"}) =>
         /\ reply_pc = "done" =>
              /\ readPos \cup exposed \cup handlesMade \subseteq Declared
              /\ handlesMade \subseteq (reply.n + 2)..(reply.n + reply.m)
         /\ (reply.m >= 2 /\ reply.dfield + 1 > reply.m - 1) => reply_pc = "panicked"

\* the descriptor of a two-word translate section announced more handles
\* than the one word after it, and the parse aborted
C7_Witness ==
    /\ Received({"parse"})
    /\ reply.m = 2 /\ reply.dfield >= 1
    /\ reply_pc = "panicked"

\* ------------------------------------------------------------------------
\* Properties of the gap search (SpecGap)

\* the memory at p is free and at least size pages of its region remain
GapAt(mm, p, size) ==
    LET block == query_memory(mm, p)
    IN block.free /\ (block.base_process_virtual_address + block.size) - p >= size

\* the addresses a region-by-region scan reaches: the cursor and the region
\* bases after it up to the window's upper bound, then the window's lower
\* bound and the region bases after it up to the cursor
ReachedUp(mm, cursor) ==
    {cursor} \cup {b \in mm.cuts : cursor < b /\ b < SHAREDMEM_END}
ReachedDown(mm, cursor) ==
    {p \in {SHAREDMEM_START} \cup {b \in mm.cuts : SHAREDMEM_START < b} : p < cursor}

Least(S) == CHOOSE x \in S : \A y \in S : x <= y

\* the first reached address that is a gap for size pages inside the window
FirstGap(mm, cursor, size) ==
    LET up == {p \in ReachedUp(mm, cursor) :
                  GapAt(mm, p, size) /\ p + size <= SHAREDMEM_END}
        down == {p \in ReachedDown(mm, cursor) :
                    GapAt(mm, p, size) /\ p + size <= SHAREDMEM_END}
    IN IF up # {} THEN Least(up) ELSE IF down # {} THEN Least(down) ELSE NoAddress

\* a free region of the map holds size pages inside the window
WindowHolds(mm, size) ==
    \E b \in mm.cuts \cup {0} :
        LET block == query_memory(mm, b)
            lo == IF b < SHAREDMEM_START THEN SHAREDMEM_START ELSE b
            hi == IF b + block.size > SHAREDMEM_END THEN SHAREDMEM_END
                  ELSE b + block.size
        IN block.free /\ hi - lo >= size

\* C11: a gap search whose queries all succeed returns the first address
\* reached, scanning region by region from the cursor to the window's upper
\* bound and then from its lower bound to the cursor, at which the memory
\* is free and at least S of the region remains; it reports no gap only if
\* no free region of the window can hold S.
C11_FirstReachedGap ==
    /\ lastSearch.result = "some" =>
          /\ GapAt(mem_map, lastSearch.address, lastSearch.size)
          /\ lastSearch.address = FirstGap(mem_map, next_candidate, lastSearch.size)
    /\ lastSearch.result = "none" => ~WindowHolds(mem_map, lastSearch.size)

\* C14: a gap search makes finitely many queries (at most one per region and
\* scan), the probes of the first scan rise from the cursor below the upper
\* bound, the probes after the wrap rise from the lower bound and stay
\* below the cursor, and no region is queried twice.
C14_BoundedScan ==
    LET q == lastSearch.queries
        n == Len(q)
        f == lastSearch.first
        region(i) == query_memory(mem_map, q[i]).base_process_virtual_address
    IN lastSearch.result # "no search" =>
        /\ n <= 2 * (Cardinality(mem_map.cuts) + 1)
        /\ f <= n /\ (~lastSearch.wrapped => f = n)
        /\ \A i \in 1..f : next_candidate <= q[i] /\ q[i] < SHAREDMEM_END
        /\ \A i \in (f + 1)..n : SHAREDMEM_START <= q[i] /\ q[i] < next_candidate
        /\ \A i \in 1..n : i # f /\ i < n => q[i] < q[i + 1]
        /\ \A i, j \in 1..n : i < j => region(i) # region(j)

\* ------------------------------------------------------------------------
\* Properties of map and unmap (SpecShm)

\* C12: after a successful map the cursor is the address of the returned
\* block plus its page-rounded size.
C12_CursorAfterBlock ==
    (shm_outcome.op = "map" /\ shm_outcome.kind = "ok") =>
        next_candidate = shm_outcome.block.start + shm_outcome.block.size

\* C13: after a successful unmap the cursor is the start of the block and
\* the block's handle is returned, not closed; after an unmap whose syscall
\* failed the cursor is what it was.
C13_UnmapResetsCursor ==
    shm_outcome.op = "unmap" =>
        IF shm_outcome.kind = "ok"
          THEN /\ next_candidate = shm_outcome.block.start
               /\ shm_outcome.block.handle \notin shm_outcome.closed
               /\ shm_outcome.block \notin blocks
          ELSE next_candidate = shm_outcome.before

\* an unmap moved the cursor back to the start of the block it freed
C13_Witness ==
    /\ shm_outcome.op = "unmap" /\ shm_outcome.kind = "ok"
    /\ shm_outcome.before # shm_outcome.block.start
    /\ next_candidate = shm_outcome.block.start

\* C15: a map whose search finds no gap returns the out-of-resource error,
\* issues no map-memory-block syscall, maps nothing and leaves the cursor
\* where it was.
C15_NoGapIsError ==
    (shm_outcome.op = "map" /\ shm_outcome.search = "none") =>
        /\ shm_outcome.kind = "err"
        /\ shm_outcome.code = OutOfResource /\ is_err(shm_outcome.code)
        /\ ~shm_outcome.syscall
        /\ shm_outcome.block = NoBlock
        /\ next_candidate = shm_outcome.before

\* with a block held and the cursor moved off the window's lower bound, a
\* map found no gap
C15_Witness ==
    /\ shm_outcome.op = "map" /\ shm_outcome.search = "none"
    /\ shm_outcome.kind = "err"
    /\ blocks # {}
    /\ next_candidate # SHAREDMEM_START

\* ------------------------------------------------------------------------
\* The svc! macro: registers

\* the number of outputs a binding declares besides the ResultCode
DeclaredOutputs(b) ==
    IF b.output = "Single" THEN 1
    ELSE IF b.output \in {"Multiple", "tick"} THEN b.types
    ELSE 0

\* a returned binding looked at r0 first: an error is returned undecoded, a
\* success decodes r1, r2, ... up to the declared number, in order
ResultCodeFirst ==
    /\ is_err(out_regs[0]) =>
         /\ svc_result.kind = "err"
         /\ svc_result.code = out_regs[0]
         /\ svc_result.decoded = <<>>
    /\ ~is_err(out_regs[0]) =>
         /\ svc_result.kind = "ok"
         /\ svc_result.decoded = [k \in 1..DeclaredOutputs(binding) |-> k]

\* C16: every syscall binding that returns examines the ResultCode in r0
\* first; a non-zero code is returned as the error and no output register is
\* decoded, a zero code decodes exactly the declared outputs from r1, r2, ...
\* in declaration order.
C16_EveryBindingResultFirst ==
    (svc_result.kind # "none" /\ binding.output # "NoReturn") => ResultCodeFirst

\* C16, for the bindings the svc! macro generates: the ResultCode in r0 is
\* examined first; a non-zero code is returned as the error and no output
\* register is decoded, a zero code decodes exactly the declared outputs from
\* r1, r2, ... in declaration order. (svc::get_system_tick_count is written by
\* hand: the kernel returns the tick in r0 and r1 and no ResultCode.)
C16_MacroBindingResultFirst ==
    (svc_result.kind # "none" /\ binding.by = "svc!" /\ binding.output # "NoReturn")
      => ResultCodeFirst

\* a generated binding with two outputs failed while r1 and r2 held values
C16_Witness ==
    /\ binding = [by |-> "svc!", output |-> "Multiple", types |-> 2]
    /\ is_err(out_regs[0]) /\ is_err(out_regs[1]) /\ is_err(out_regs[2])
    /\ svc_result = SvcReturned("err", out_regs[0], <<>>)

RECURSIVE SlotRegister(_, _)
\* the register of slot i: rN for `in "rN"`, else the one after the previous
\* slot, r0 for the first
SlotRegister(spec, i) ==
    IF spec[i].kind = "Named" /\ spec[i].register # NoRegister THEN spec[i].register
    ELSE IF i = 1 THEN 0
    ELSE SlotRegister(spec, i - 1) + 1

FooSkipBar ==
    <<[kind |-> "Named", register |-> NoRegister, name |-> "foo"],
      [kind |-> "Unused", register |-> NoRegister, name |-> "_"],
      [kind |-> "Named", register |-> NoRegister, name |-> "bar"]>>

SkipFooBar ==
    <<[kind |-> "Unused", register |-> NoRegister, name |-> "_"],
      [kind |-> "Named", register |-> NoRegister, name |-> "foo"],
      [kind |-> "Named", register |-> NoRegister, name |-> "bar"]>>

FooR1Bar ==
    <<[kind |-> "Named", register |-> 1, name |-> "foo"],
      [kind |-> "Named", register |-> NoRegister, name |-> "bar"]>>

\* C17: input parameters get registers in declaration order from r0: a named
\* parameter without a register takes the one after the previous slot, `_`
\* consumes a register and binds nothing, `in "rN"` takes rN and numbering
\* goes on at N+1; (foo, _, bar) gets r0 and r2, and (_, foo, bar) gets the
\* registers of (foo in "r1", bar).
C17_RegistersInOrder ==
    (input_params.done /\ ~input_params.panicked) =>
      LET named == {i \in 1..Len(input_spec) : input_spec[i].kind = "Named"}
          rank(i) == Cardinality({j \in named : j <= i})
      IN /\ Len(input_params.parameters) = Cardinality(named)
         /\ \A i \in named :
              input_params.parameters[rank(i)] =
                [name |-> input_spec[i].name,
                 register |-> SlotRegister(input_spec, i)]
         /\ input_spec = FooSkipBar =>
              input_params.parameters =
                <<[name |-> "foo", register |-> 0], [name |-> "bar", register |-> 2]>>
         /\ input_spec \in {SkipFooBar, FooR1Bar} =>
              input_params.parameters =
                <<[name |-> "foo", register |-> 1], [name |-> "bar", register |-> 2]>>

\* (_, foo, bar) was expanded to foo in r1 and bar in r2
C17_Witness ==
    /\ input_spec = SkipFooBar
    /\ input_params.done /\ ~input_params.panicked
    /\ input_params.parameters =
         <<[name |-> "foo", register |-> 1], [name |-> "bar", register |-> 2]>>

\* ------------------------------------------------------------------------
\* Spawned threads: the allocation

\* C18: the allocation of a spawned thread is freed only by join, once, and
\* only after the wait reported the thread exited; join then returns the value
\* the closure stored in the return slot; without a join, or when its wait
\* fails, the allocation is never freed.
C18_JoinFreesOnce ==
    \A id \in SpawnIds :
      /\ memory[id].frees <= 1
      /\ memory[id].state = "freed" <=> join_handle[id].kind = "ok"
      /\ join_handle[id].kind = "ok" =>
           /\ memory[id].frees = 1
           /\ join_handle[id].exited
           /\ thread[id].state = "exited"
           /\ join_handle[id].value = thread[id].f
      /\ join_handle[id].kind # "ok" => memory[id].frees = 0

\* one thread was joined after it exited, the join of another one failed
C18_Witness ==
    \E id, other \in SpawnIds :
      /\ join_handle[id].kind = "ok" /\ memory[id].state = "freed"
      /\ join_handle[id].value \in ReturnValues
      /\ join_handle[other].kind = "err" /\ memory[other].state = "allocated"

\* ------------------------------------------------------------------------
\* Header and descriptor words: encode, then decode

C20_DescriptorRoundTrip ==
    (codec_out.done /\ codec_in.kind = "descriptor") =>
      /\ codec_out.len = codec_in.len
      /\ codec_out.flag = codec_in.flag

\* ------------------------------------------------------------------------
\* Result codes: packing and success

\* C21: for all fields within their widths (5, 6, 8 and 10 bits) the code
\* ResultCode::new packs decodes through level(), summary(), module() and
\* description() to the original four fields; the all-zero fields pack to 0,
\* and 0 decodes as success.
C21_FieldsRoundTrip ==
    rc_out.op = "new" =>
      /\ rc_out.level = Level_from(rc_in.level)
      /\ rc_out.summary = Summary_from(rc_in.summary)
      /\ rc_out.module = Module_from(rc_in.module)
      /\ rc_out.description = rc_in.description
      /\ (rc_in.level = 0 /\ rc_in.summary = 0 /\ rc_in.module = 0
            /\ rc_in.description = 0) =>
           (rc_out.code = ZeroWord /\ ~is_err(rc_out.code) /\ rc_out.level = 0)

\* C22: a ResultCode is a success exactly when its value is 0: into_result,
\* and and and_then return Ok for 0 and otherwise the error with the same
\* value; an ErrorCode never holds 0, ErrorCode::new aborts instead.
C22_SuccessIffZero ==
    /\ rc_out.op \in {"into_result", "and", "and_then"} =>
         /\ rc_out.kind \in {"ok", "err"}
         /\ rc_out.kind = "ok" <=> rc_in.raw = ZeroWord
         /\ rc_out.kind = "err" => rc_out.code = rc_in.raw
         /\ rc_out.op = "and_then" => (rc_out.ran <=> rc_out.kind = "ok")
    /\ rc_out.op = "ErrorCode::new" =>
         /\ rc_out.kind \in {"ErrorCode", "panic"}
         /\ rc_out.kind = "ErrorCode" => rc_out.code # ZeroWord
         /\ rc_out.kind = "panic" <=>
              (rc_in.level = 0 /\ rc_in.summary = 0
                 /\ Module_into(Module_from(rc_in.module)) = 0
                 /\ rc_in.description = 0)

\* a positive non-zero value came back from and_then as the error, unrun
C22_Witness ==
    /\ rc_out.op = "and_then" /\ rc_in.raw = <<0, 1>>
    /\ rc_out.kind = "err" /\ rc_out.code = <<0, 1>> /\ ~rc_out.ran

\* ------------------------------------------------------------------------
\* Requests: the words of each parameter

\* the buffer word after the last word of the k-th parameter added
NextAt(k) == IF k < Len(reqLog) THEN reqLog[k + 1].at ELSE writer.end_ptr

TranslateLog == SelectSeq(reqLog, LAMBDA e : e.p.kind # "Normal")

\* C23: a handle translate parameter with count handles is written as the one
\* descriptor word (count-1)<<26 | moveFlag<<4, tag bits 0, then exactly the
\* count raw handles in slice order; moveFlag is 1 for a transfer and 0 for a
\* lent duplicate, and size() is 1+count, the number of words written.
C23_HandleGroupWords ==
    req_pc # "panicked" =>
      \A k \in 1..Len(reqLog) :
        reqLog[k].p.kind \in {"Handle", "HandleRef"} =>
          LET e == reqLog[k]
              count == Len(e.p.handles)
              moveFlag == IF e.p.kind = "Handle" THEN 1 ELSE 0
          IN /\ writer.mem[e.at] = <<((count - 1) * 1024) % Half, moveFlag * 16>>
             /\ \A i \in 1..count : writer.mem[e.at + i] = e.p.handles[i]
             /\ TranslateParameterSet_size(e.p) = 1 + count
             /\ NextAt(k) = e.at + 1 + count

\* a request was sent with two moved handles behind their descriptor
C23_Witness ==
    /\ req_pc = "sent"
    /\ \E k \in 1..Len(reqLog) :
         /\ reqLog[k].p = [kind |-> "Handle", handles |-> <<HandleA, HandleB>>]
         /\ writer.mem[reqLog[k].at] = <<1024, 16>>
         /\ writer.mem[reqLog[k].at + 2] = HandleB

\* C24: a process-id translate parameter is written as the two words 0x20 and
\* 0x00 and counts as two translate words; command 0x5 with two normal
\* parameters and one process id is sent with the header 0x00050082.
C24_ProcessIdWords ==
    req_pc # "panicked" =>
      /\ \A k \in 1..Len(reqLog) :
           reqLog[k].p.kind = "ProcessId" =>
             /\ writer.mem[reqLog[k].at] = Word(32)
             /\ writer.mem[reqLog[k].at + 1] = Word(0)
             /\ TranslateParameterSet_size(reqLog[k].p) = 2
             /\ NextAt(k) = reqLog[k].at + 2
      /\ (req_pc = "sent" /\ req_id = 5 /\ normalArgs = 2 /\ Len(TranslateLog) = 1
            /\ TranslateLog[1].p.kind = "ProcessId") =>
           writer.mem[0] = Word(327810)

\* command 5 with two normal words and a process id was sent
C24_Witness ==
    /\ req_pc = "sent" /\ req_id = 5 /\ normalArgs = 2
    /\ Len(TranslateLog) = 1 /\ TranslateLog[1].p.kind = "ProcessId"
    /\ TranslateLog[1].at = 3
    /\ writer.mem[0] = Word(327810)
    /\ writer.mem[3] = Word(32) /\ writer.mem[4] = Word(0)

\* C25: a static-buffer translate parameter with size s and buffer id b in
\* 0..15 is written as the descriptor (s<<14) | (b<<10) | 0x2 and one pointer
\* word, and counts as two translate words; size 4 with buffer id 0 gives
\* 0x10002.
C25_StaticBufferWords ==
    req_pc # "panicked" =>
      \A k \in 1..Len(reqLog) :
        (reqLog[k].p.kind = "StaticBuffer" /\ reqLog[k].p.id \in 0..15) =>
          LET e == reqLog[k]
          IN /\ writer.mem[e.at] = Word((e.p.size * 16384) + (e.p.id * 1024) + 2)
             /\ writer.mem[e.at + 1] = e.p.ptr
             /\ TranslateParameterSet_size(e.p) = 2
             /\ NextAt(k) = e.at + 2
             /\ (e.p.size = 4 /\ e.p.id = 0) => writer.mem[e.at] = Word(65538)

\* a static buffer of size 5 with buffer id 15 was written
C25_Witness ==
    /\ req_pc \in {"Translate", "sent"}
    /\ \E k \in 1..Len(reqLog) :
         /\ reqLog[k].p.kind = "StaticBuffer"
         /\ reqLog[k].p.size = 5 /\ reqLog[k].p.id = 15
         /\ writer.mem[reqLog[k].at] = Word(97282)

RECURSIVE NormalsBefore(_)
\* the normal words of the first k parameters added
NormalsBefore(k) ==
    IF k = 0 THEN 0
    ELSE NormalsBefore(k - 1)
           + (IF reqLog[k].p.kind = "Normal" THEN Len(reqLog[k].p.words) ELSE 0)

\* C27: the normal parameter words occupy buffer words 1..n in the order they
\* were added and every translate word comes after all of them; once a
\* translate parameter was added no normal parameter is appended.
C27_NormalsThenTranslates ==
    req_pc # "panicked" =>
      /\ NormalsBefore(Len(reqLog)) = normalArgs
      /\ \A k \in 1..Len(reqLog) :
           IF reqLog[k].p.kind = "Normal"
             THEN /\ reqLog[k].at = 1 + NormalsBefore(k - 1)
                  /\ \A i \in 1..Len(reqLog[k].p.words) :
                       writer.mem[reqLog[k].at + i - 1] = reqLog[k].p.words[i]
             ELSE /\ reqLog[k].at > normalArgs
                  /\ reqLog[k].normals = normalArgs
                  /\ \A j \in 1..Len(reqLog) : reqLog[j].p.kind = "Normal" => j < k

\* the builder added two normal parameters, then a translate parameter
C27_Witness ==
    /\ req_pc = "Translate" /\ Len(reqLog) = 3
    /\ reqLog[1].p.kind = "Normal" /\ reqLog[2].p.kind = "Normal"
    /\ reqLog[3].p.kind = "Handle" /\ reqLog[3].at = normalArgs + 1

\* ------------------------------------------------------------------------
\* Shared memory: the step of the gap search

\* C26: in a gap search, a probe that finds the memory not free, or fewer
\* than S bytes left in its region, is followed by a probe at the end address
\* (base + size) of the region that holds it, so nothing between the probe and
\* that end is skipped and no free region beyond it is jumped.
C26_NextProbeIsRegionEnd ==
    \A i \in 1..Len(lastSearch.jumps) :
      LET probe == lastSearch.jumps[i][1]
          block == query_memory(mem_map, probe)
          region_end == block.base_process_virtual_address + block.size
      IN lastSearch.jumps[i][2] =
           (IF region_end >= UsizePages THEN NoAddress ELSE region_end)

\* ------------------------------------------------------------------------
\* Shared memory: the blocks held

Disjoint(b1, b2) ==
    b1.start + b1.size <= b2.start \/ b2.start + b2.size <= b1.start

\* C30: with the mapper's callers mutually excluded and the kernel reporting
\* the pages of every mapped block as not free, any two blocks map returned
\* that are not unmapped are disjoint, and every block returned was reported
\* free with at least its page-rounded size remaining when it was chosen.
C30_DisjointBlocks ==
    /\ [](\A b1, b2 \in blocks : b1 # b2 => Disjoint(b1, b2))
    /\ [][\A b \in blocks' \ blocks :
            /\ b = shm_outcome'.block
            /\ b.size \in {PageRound(bytes) : bytes \in MapSizes}
            /\ GapAt(mem_map, b.start, b.size)]_vars

\* two blocks are held, the second one mapped above the first
C30_Witness ==
    \E b1, b2 \in blocks :
      /\ b1.start + b1.size <= b2.start
      /\ shm_outcome.op = "map" /\ shm_outcome.kind = "ok" /\ shm_outcome.block = b2

\* ------------------------------------------------------------------------
\* Properties of the timed lock (SpecLock)

\* C28: try_lock_until(deadline) passes the wait syscall the timeout
\* max(deadline - now, 0): zero when the deadline is the current tick or
\* earlier, never negative and never more than deadline - now.
C28_TimeoutIsClampedDifference ==
    lock_call.op = "try_lock_until" =>
      /\ ~lock_call.panicked
      /\ ~I64Negative(lock_call.wait.timeout)
      /\ lock_call.wait.timeout =
           (IF U64Less(lock_call.now, lock_call.deadline)
              THEN U64WrappingSub(lock_call.deadline, lock_call.now)
              ELSE Zero64)

\* ------------------------------------------------------------------------
\* Properties of the sticky event (SpecEventFair)

\* a thread is parked in the arbiter inside wait()
Blocked(t) == ev_op[t] = "wait" /\ ev_pc[t] = "parked"

\* a thread is inside signal()
InSignal(t) == ev_op[t] = "signal" /\ ev_pc[t] # "idle"

\* once signal() has returned and until clear() is called, the event is
\* Signaled, no wait() is at or in the arbiter and every try_wait() that has
\* read the state has Ok to return
C29_StaysSignaled ==
    sticky =>
      /\ ev_state = Signaled
      /\ \A t \in EventThreads :
           /\ ev_pc[t] \notin {"wait_if_less_than", "parked"}
           /\ ev_op[t] = "try_wait" /\ ev_pc[t] = "drop_read" => ev_ret[t] = "ok"

\* C29: once signal() has returned, every wait() returns without blocking
\* and try_wait() succeeds until clear() is called; and whenever a thread is
\* blocked in wait() and another thread calls signal(), signal() returns and
\* the blocked thread is eventually woken.
C29_SignalWakesWaiters ==
    /\ []C29_StaysSignaled
    /\ \A w, s \in EventThreads :
         /\ (Blocked(w) /\ InSignal(s)) ~> ~Blocked(w)
         /\ (Blocked(w) /\ InSignal(s)) ~> ~InSignal(s)

\* C31: for every handle group written to the command buffer, the count in
\* its descriptor word, (descriptor >> 26) + 1, is the number of handle words
\* that follow it, and no descriptor bit outside the count and the move flag
\* is set, whatever the length of the slice.
C31_DescriptorCountsHandles ==
    req_pc # "panicked" =>
      \A k \in 1..Len(reqLog) :
        reqLog[k].p.kind \in {"Handle", "HandleRef"} =>
          LET e == reqLog[k]
              descriptor == writer.mem[e.at]
          IN /\ TranslationDescriptor_len(descriptor) + 1 = Len(e.p.handles)
             /\ TranslationDescriptor_len(descriptor) + 1 = NextAt(k) - (e.at + 1)
             /\ descriptor[1] % 1024 = 0
             /\ descriptor[2] \in {0, 16}

\* ------------------------------------------------------------------------
\* Properties of dropping the handle cell (SpecSyncDrop)

\* C32: the close-handle syscall is never invoked with the closed sentinel 0:
\* closing or dropping an owning handle that is already closed, and dropping
\* a handle cell that was never initialised, issue no syscall.
C32_SentinelNeverClosed ==
    /\ closeCalls[CLOSED_HANDLE] = 0
    /\ ownCloses[CLOSED_HANDLE] = 0

\* ------------------------------------------------------------------------
\* Input registers of a syscall binding (SpecSvcIn)

\* C33: InputSpec::parameters never assigns one register to two input
\* parameters of a binding: a specification with two coinciding explicit
\* registers, or with an automatically numbered parameter landing on a
\* register taken by an earlier explicit one, is rejected.
C33_RegistersDistinct ==
    (input_params.done /\ ~input_params.panicked) =>
      \A i, j \in 1..Len(input_params.parameters) :
        i # j => input_params.parameters[i].register # input_params.parameters[j].register

\* ------------------------------------------------------------------------
\* The shared-memory window (SpecShm)

\* the blocks map has returned: those still held and the one just returned
ReturnedBlocks ==
    blocks \cup (IF shm_outcome.op = "map" /\ shm_outcome.kind = "ok"
                   THEN {shm_outcome.block} ELSE {})

\* C34: after any sequence of map and unmap calls, failed ones included, the
\* cursor lies inside the window, SHAREDMEM_START <= next_candidate <
\* SHAREDMEM_END, and every block map returned lies entirely inside it.
C34_CursorAndBlocksInWindow ==
    /\ SHAREDMEM_START <= next_candidate /\ next_candidate < SHAREDMEM_END
    /\ \A b \in ReturnedBlocks :
         SHAREDMEM_START <= b.start /\ b.start + b.size <= SHAREDMEM_END

\* a map found its gap from a cursor inside the window and brought the
\* cursor back to the start of the window, with another block held
C34_Witness ==
    /\ shm_outcome.op = "map" /\ shm_outcome.kind = "ok"
    /\ shm_outcome.before > SHAREDMEM_START
    /\ next_candidate = SHAREDMEM_START
    /\ Cardinality(blocks) >= 2

\* ------------------------------------------------------------------------
\* Properties of the interrupt queue (SpecIrq)

\* the events pop_interrupt has acknowledged: queued and no longer counted
Acked == pushed - InterruptHeader_from(irq_header).events_total

\* C35: pop_interrupt returns None when the header's events_total is 0, and
\* otherwise returns the event stored at the header's current_index and
\* acknowledges it with one compare-and-swap that takes exactly one from
\* events_total; under any interleaving with the producer no queued event is
\* returned twice and none is acknowledged without being returned.
C35_PopReturnsQueuedEvents ==
    /\ pop_ret.kind = "none" => pop_ret.header.events_total = 0
    /\ \A i, j \in 1..Len(popped) : i # j => popped[i] # popped[j]
    /\ {popped[i] : i \in 1..Len(popped)} = 1..Acked

\* C36: from a header whose current_index is below 0x34, the current_index
\* pop_interrupt writes back is always in 0..0x33, so read_event never reads
\* an event slot at index 0x34 or above.
C36_IndexBelowQueueSlots ==
    /\ InterruptHeader_from(irq_header).current_index < QueueSlots
    /\ \A index \in read_at : index < QueueSlots

\* ------------------------------------------------------------------------
\* Properties of the framebuffer info (SpecFb)

\* trigger_update has stored its header in this step
Published == fb_pc = "cas" /\ fb_pc' = "idle"

\* the slot of the update under way holds its whole descriptor
SlotWritten ==
    fb_slots[fb_next] = [id |-> fb_call.id, active_framebuffer |-> fb_call.active_fb,
                         complete |-> TRUE]

\* the descriptor is whole in its slot before the update flag is set
C37_WrittenBeforeFlagged == [][Published => SlotWritten /\ HeaderUpdateByte(fb_header') = 1]_vars

\* the compare-and-swap loop keeps the other bytes of the header
C37_OtherBytesKept == [][fb_header'[1] = fb_header[1]]_vars

\* C37: update publishes what it wrote: the new descriptor is completely
\* written into one of the two slots before the header's update flag is set,
\* the header's other bytes are preserved by the compare-and-swap loop, and
\* once update returns the header's index byte designates the slot that was
\* just written.
C37_UpdatePublishesSlot ==
    /\ C37_WrittenBeforeFlagged
    /\ C37_OtherBytesKept
    /\ [][Published => HeaderIndexByte(fb_header') = fb_next]_vars

\* ------------------------------------------------------------------------
\* Hid::init when the shared memory cannot be mapped

\* init has returned the error of the mapping
MapFailed == hid_pc = "idle" /\ hid_ret.kind = "err" /\ hid_ret.err \in MapOutcomes

\* C38: when mapping the HID shared memory fails, init returns that error
\* and the service handle and the five handles that came with the memory
\* handle have each been closed exactly once
C38_HandlesClosedOnce ==
    MapFailed =>
      /\ hid_got.service_handle # 0
      /\ Len(hid_got.handles) = ReplyHandles - 1
      /\ hid_closes[hid_got.service_handle] = 1
      /\ \A i \in 1..Len(hid_got.handles) : hid_closes[hid_got.handles[i]] = 1
      /\ hid_service = 0 /\ hid_locals = <<>>

\* the second init fails in map_memory_block after a first one that
\* succeeded and whose Hid lives on
C38_Witness ==
    /\ MapFailed
    /\ hid_ret.err = "map_memory_block"
    /\ hid_inits = 2
    /\ hid_obj # {}
    /\ hid_closes[1] = 0
    /\ hid_got.service_handle > ReplyHandles + 1

\* ------------------------------------------------------------------------
\* The shutdown command over the lifetime of a Soc

\* the shutdown commands sent for the Soc
Shutdowns == Cardinality({i \in 1..Len(soc_sent) : soc_sent[i].id = ShutdownSockets})

\* the Soc is gone
SocEnded == soc_state \in {"reclaimed", "reclaim_failed", "dropped"}

\* reclaim gave back the buffer init was given, and nobody freed it
BufferReturned ==
    (soc_state = "reclaimed" /\ soc_ret.kind = "ok") =>
      /\ soc_ret.buffer = soc_given
      /\ soc_freed[soc_given.buffer] = 0

\* a Soc that is dropped without reclaim sends the shutdown once
DroppedSendsOnce == soc_state = "dropped" => Shutdowns = 1

\* C39: a Soc that is gone, reclaimed or dropped, has had the shutdown
\* command (0x19) sent exactly once, and reclaim has returned the buffer
\* init was given without freeing it
C39_ShutdownSentOnce ==
    /\ SocEnded => Shutdowns = 1
    /\ BufferReturned

====
